---- MODULE Spec2Model ----
(***************************************************************************)
(* A model of your-podcast: the rate-limited Reddit fetcher                *)
(* (reddit/json_fetcher.py, reddit/comment_fetcher.py, cli/main.py fetch), *)
(* the episode generator and its database session (podcast/generator.py,   *)
(* db/session.py, cli/main.py generate), the byte-limited Google Cloud     *)
(* TTS backend (podcast/google_cloud_tts.py) and the local TTS backends    *)
(* (podcast/macos_tts.py, podcast/chatterbox_tts.py), the content         *)
(* analyzer (podcast/analyzer.py), the rows of table posts under their two *)
(* writers, and two overlapping runs of generate_episode that share the    *)
(* transcript directory.                                                   *)
(*                                                                         *)
(* Each part of the program has its own specification (SpecRetry,          *)
(* SpecFetch, SpecDelay, SpecGen, SpecSelect, SpecChunk, SpecCloud,        *)
(* SpecParse, SpecPause, SpecSpeech, SpecAnalyze, SpecPosts, SpecRuns);    *)
(* the variables of the other parts stay at their idle values.             *)
(*                                                                         *)
(* Times: Python floats that carry seconds are modelled in milliseconds    *)
(* (integers), Python ints that carry seconds stay seconds.                *)
(***************************************************************************)
EXTENDS Integers, Sequences, FiniteSets, TLC

VARIABLES
  \* ---- fetch_with_retry (json_fetcher.py 53-114) ----
  fr_pc,        \* "idle" | "request" (about to call requests.get) | "returned" | "raised"
  max_retries,  \* the parameter max_retries
  attempt,      \* the loop variable of range(max_retries + 1)
  backoff,      \* the local backoff, seconds
  resp_log,     \* what each requests.get so far produced, in order
  last_reset,   \* the X-Ratelimit-Reset header of the last 429 response
  slept,        \* number of time.sleep(1) calls of the last _countdown_sleep
  fr_error      \* the exception fetch_with_retry raised, "none" when it did not

retryVars == <<fr_pc, max_retries, attempt, backoff, resp_log, last_reset, slept, fr_error>>

VARIABLES
  \* ---- the fetch command (cli/main.py 100-170), fetch_and_save_subreddit_json
  \*      (json_fetcher.py 219-299) and fetch_comments (comment_fetcher.py 24-99) ----
  f_pc,                 \* position of the fetch command (see FetchPositions)
  stored,               \* committed rows of table posts, in insertion order
  flushed,              \* rows the session has INSERTed in its open transaction
  pending,              \* rows session.add()ed and not yet flushed
  n_subs,               \* number of subreddits given to the command
  sub_i,                \* number of subreddits the loop of main.fetch has finished
  last_response,        \* main.fetch's last_response: 0 for None, else k for the
                        \* listing response of the k-th subreddit of the run; the
                        \* batch of subreddit i has response i as its own local
  waited_on,            \* history: <<i, k>> for each wait before subreddit i of the
                        \* run, k being the response its delay was computed from
  outcomes,             \* history: how the batch of each finished subreddit of the
                        \* run ended: "committed", "listing_failed" or "failed"
  bad_headers,          \* the listing responses still referenced (as k) whose
                        \* rate-limit headers make adaptive_delay or time.sleep raise
  posts,                \* the batch's listing, reddit ids in listing order
  new_posts_to_fetch,   \* the listing without the ids already stored
  posts_with_comments,  \* [reddit_id, comments], one per finished comment fetch
  fc_log,               \* history: how each fetch_comments call of the batch ended
  fc_attempt,           \* fetch_comments' loop variable
  fc_backoff,           \* fetch_comments' backoff, seconds
  saved,                \* number of entries of posts_with_comments the save loop has done
  new_posts,            \* the batch's new_posts counter
  total_posts,          \* main.fetch's total_posts
  batch_error,          \* the exception that ended the last batch, "none" if it returned
  runs                  \* number of fetch commands started

fetchVars == <<f_pc, stored, flushed, pending, n_subs, sub_i, last_response, waited_on,
               outcomes, bad_headers,
               posts,
               new_posts_to_fetch, posts_with_comments, fc_log, fc_attempt, fc_backoff,
               saved, new_posts, total_posts, batch_error, runs>>

VARIABLES
  \* ---- the generate command (cli/main.py 252-365), generate_episode
  \*      (generator.py 48-330) and its session (db/session.py 33-44) ----
  g_pc,            \* position of the generate command (see GenPositions)
  db_posts,        \* the posts table, as the keys of its rows
  db_users,        \* committed rows of table users (a user is its name)
  db_episodes,     \* committed rows of table episodes
  db_assoc,        \* committed rows of table post_episodes: <<post, episode id>>
  tx_users,        \* rows of users written in the session's open transaction
  tx_episodes,     \* rows of episodes written in the open transaction
  tx_assoc,        \* rows of post_episodes written in the open transaction
  g_user,          \* the user the episode is generated for
  g_limit,         \* the parameter limit
  g_by_score,      \* the parameter sort_by_score
  g_include,       \* the parameter include_covered_posts
  g_subreddits,    \* the parameter subreddits (empty: no filter)
  g_posts,         \* the local posts: the selection, in order
  candidate_posts, \* the local candidate_posts of random mode ({}: not assigned)
  g_audio,         \* the local audio_path: "none" until a backend returned one
  g_episode,       \* id of the Episode object of this run, 0 before it exists
  g_appended,      \* number of posts the loop at 324-325 has appended
  override_used,   \* history: a run with include_covered_posts has started
  exit_code,       \* exit status of the last generate command, -1 while none
  g_error          \* history: what made the last generate command fail ("none": nothing)

genVars == <<g_pc, db_posts, db_users, db_episodes, db_assoc, tx_users, tx_episodes, tx_assoc,
             g_user, g_limit, g_by_score, g_include, g_subreddits, g_posts,
             candidate_posts, g_audio,
             g_episode, g_appended, override_used, exit_code, g_error>>

VARIABLES
  \* ---- chunk_segments (google_cloud_tts.py 74-106) and the chunk loop of
  \*      generate_audio_google_cloud (google_cloud_tts.py 109-268) ----
  c_pc,            \* "idle" | "input" | "chunked" (chunk_segments) |
                   \* "start" | "attempt" | "retry" | "finish" | "returned" | "raised"
  segments,        \* the (speaker, text) pairs to chunk
  max_bytes,       \* the parameter max_bytes
  chunks,          \* what chunk_segments returned
  chunk_idx,       \* number of chunks the loop has finished
  audio_chunks,    \* 1-based indices of the chunks whose audio was appended
  skipped_chunks,  \* the list skipped_chunks
  synth_calls,     \* history: synthesize_chunk calls made for the current chunk
  sanitize_calls,  \* history: sanitize_chunk_content calls made for the current chunk
  last_request,    \* history: the chunk data of the last synthesize_chunk call
  last_outcome,    \* history: how the last finished chunk ended
  combined,        \* the units of the exported audio, in order (<<>>: no file written)
  warned           \* the chunk indices the warning printed (<<>>: no warning)

cloudVars == <<c_pc, segments, max_bytes, chunks, chunk_idx, audio_chunks, skipped_chunks,
               synth_calls, sanitize_calls, last_request, last_outcome, combined, warned>>

VARIABLES
  \* ---- parse_transcript, get_pause_duration and the per-utterance backends
  \*      (macos_tts.py, chatterbox_tts.py) ----
  s_pc,            \* "idle" | "transcript" | "parsed" | "text" | "paused" |
                   \* "synthesize" | "assemble" | "returned" | "raised"
  transcript,      \* the transcript given to parse_transcript, as tokens
  tts_segments,    \* the list segments: what parse_transcript returned
  backend,         \* "macos" | "chatterbox"
  audio_segments,  \* the list audio_segments, as the indices of the utterances
  tts_combined,    \* the units of the audio combined, in order
  prev_text,       \* the text last given to get_pause_duration
  pause_ms         \* what get_pause_duration last returned (0: not called)

speechVars == <<s_pc, transcript, tts_segments, backend, audio_segments, tts_combined,
                prev_text, pause_ms>>

VARIABLES
  \* ---- adaptive_delay (json_fetcher.py 16-37) ----
  d_pc,              \* "idle" | "called" | "returned" | "raised"
  remaining_header,  \* the header X-Ratelimit-Remaining of the response
  reset_header,      \* the header X-Ratelimit-Reset of the response
  base_delay,        \* the parameter base_delay, in milliseconds
  delay              \* what adaptive_delay returned, in milliseconds (-1: nothing)

delayVars == <<d_pc, remaining_header, reset_header, base_delay, delay>>

VARIABLES
  \* ---- filter_and_score_posts and analyze_post_value (analyzer.py 11-117) ----
  a_pc,        \* "idle" | "start" | "returned" | "raised"
  a_posts,     \* the parameter posts of filter_and_score_posts
  min_score,   \* the parameter min_score
  a_analyzed,  \* number of analyze_post_value calls begun
  analysis,    \* the dicts analyze_post_value returned, in call order
  a_result,    \* what filter_and_score_posts returned
  a_error      \* the exception that left analyze_post_value, "none" when none did

analyzeVars == <<a_pc, a_posts, min_score, a_analyzed, analysis, a_result, a_error>>

VARIABLES
  \* ---- the rows of table posts under fetch_and_save_subreddit_json
  \*      (json_fetcher.py 183-299) and generate_episode (generator.py 310-328) ----
  p_pc,        \* "idle" | "ready"
  table,       \* the committed rows of posts, by reddit_id
  p_assoc,     \* the committed rows of post_episodes: <<reddit_id, episode id>>
  p_clock,     \* number of batches saved so far (the time of datetime.now)
  p_listing    \* history: the listing of the last batch

postVars == <<p_pc, table, p_assoc, p_clock, p_listing>>

VARIABLES
  \* ---- two overlapping runs of generate_episode and the transcript
  \*      directory they share (generator.py 20-45, 147-330) ----
  gen_runs,    \* per run: where it is and its local variables
  t_dir,       \* the files transcript_*.txt of TRANSCRIPT_DIR
  t_clock      \* the time of the file system

runVars == <<gen_runs, t_dir, t_clock>>

vars == <<retryVars, fetchVars, genVars, cloudVars, speechVars, delayVars, analyzeVars,
          postVars, runVars>>

\* What each part of the program leaves alone.
notRetry == <<fetchVars, genVars, cloudVars, speechVars, delayVars, analyzeVars, postVars, runVars>>

notFetch == <<retryVars, genVars, cloudVars, speechVars, delayVars, analyzeVars, postVars, runVars>>

notGen == <<retryVars, fetchVars, cloudVars, speechVars, delayVars, analyzeVars, postVars, runVars>>

notCloud == <<retryVars, fetchVars, genVars, speechVars, delayVars, analyzeVars, postVars, runVars>>

notSpeech == <<retryVars, fetchVars, genVars, cloudVars, delayVars, analyzeVars, postVars, runVars>>

notDelay == <<retryVars, fetchVars, genVars, cloudVars, speechVars, analyzeVars, postVars, runVars>>

notAnalyze == <<retryVars, fetchVars, genVars, cloudVars, speechVars, delayVars, postVars, runVars>>

notPost == <<retryVars, fetchVars, genVars, cloudVars, speechVars, delayVars, analyzeVars,
            runVars>>

notRun == <<retryVars, fetchVars, genVars, cloudVars, speechVars, delayVars, analyzeVars,
           postVars>>

(***************************************************************************)
(* Bounds of the model.                                                    *)
(***************************************************************************)
\* Largest retry budget explored (the code's default, 3, is within it).
MaxRetries == 3

\* Longest listing a subreddit returns.
MaxListing == 2

\* Most subreddits given to one fetch command.
MaxSubreddits == 2

\* Most fetch commands run one after the other.
MaxRuns == 2

\* Largest --limit given to generate.
MaxLimit == 2

\* Most episodes ever created (episode ids are 1..MaxEpisodes).
MaxEpisodes == 2

\* Longest sequence of utterances chunked.
MaxSegments == 3

\* Largest byte ceiling given to chunk_segments, besides the default.
MaxCeiling == 4

\* Longest transcript parsed, in tokens (tags and pieces of text).
MaxTokens == 5

\* Longest text given to get_pause_duration on its own, in characters.
MaxText == 4

\* Most utterances given to a per-utterance backend.
MaxUtterances == 2

\* Most posts given to filter_and_score_posts.
MaxAnalyzed == 3

\* Most batches saved to the posts table.
MaxBatches == 2

\* Latest time of the file system while two runs overlap.
MaxClock == 2

(***************************************************************************)
(* Helpers.                                                                *)
(***************************************************************************)
Max(a, b) == IF a >= b THEN a ELSE b

Min(a, b) == IF a <= b THEN a ELSE b

RECURSIVE Pow2(_)
Pow2(k) == IF k = 0 THEN 1 ELSE 2 * Pow2(k - 1)

(***************************************************************************)
(* Rate-limit headers.  A header is absent, is text float() rejects (or    *)
(* accepts as inf/nan, which int() then rejects), or is a decimal number,  *)
(* kept here as the value float() gives it, in milliseconds.               *)
(***************************************************************************)
NoHeader == [kind |-> "absent", ms |-> 0]

BadHeader == [kind |-> "malformed", ms |-> 0]

NumHeader(ms) == [kind |-> "num", ms |-> ms]

\* "0", "0.9", "1.5", "5", "5.5", "-3"
ResetHeaders == {NoHeader, BadHeader} \cup
                {NumHeader(ms) : ms \in {0, 900, 1500, 5000, 5500, -3000}}

\* A Python int of seconds as a float, in milliseconds.
SecondsToMs(s) == s * 1000

\* int(x) of a float: truncation toward zero.
IntOfMs(ms) == IF ms >= 0 THEN ms \div 1000 ELSE -((-ms) \div 1000)

\* float(resp.headers.get("X-Ratelimit-Reset", backoff)), json_fetcher.py 85.
\* Defined for a header that is not malformed.
ResetSeconds(h, b) == IF h.kind = "absent" THEN SecondsToMs(b) ELSE h.ms

\* wait_time = max(reset_seconds, backoff), json_fetcher.py 86 (milliseconds).
WaitTime(h, b) == Max(ResetSeconds(h, b), SecondsToMs(b))

\* _countdown_sleep(seconds): remaining = int(seconds); one time.sleep(1) per
\* unit while remaining > 0.  The number of seconds slept.
CountdownSleep(ms) == Max(IntOfMs(ms), 0)

(***************************************************************************)
(* fetch_with_retry.  One action per outcome of requests.get in one        *)
(* iteration of the loop.                                                  *)
(***************************************************************************)
InitRetry ==
  /\ fr_pc = "request"
  /\ max_retries \in 0..MaxRetries
  /\ attempt = 0
  /\ backoff = 1
  /\ resp_log = <<>>
  /\ last_reset = NoHeader
  /\ slept = 0
  /\ fr_error = "none"

IdleRetry ==
  /\ fr_pc = "idle"
  /\ max_retries = 0
  /\ attempt = 0
  /\ backoff = 1
  /\ resp_log = <<>>
  /\ last_reset = NoHeader
  /\ slept = 0
  /\ fr_error = "none"

\* A retry test that gives up one attempt early.
RetriesRemainOffByOne(a, n) == a + 1 < n

\* The loop's retry test, `attempt < max_retries` (lines 83 and 104).
RetriesRemain(a, n) == a < n

\* requests.get returns status 429 (lines 82-97).
Response429 ==
  /\ fr_pc = "request"
  /\ \E h \in ResetHeaders :
       /\ resp_log' = Append(resp_log, "429")
       /\ last_reset' = h
       /\ IF RetriesRemain(attempt, max_retries)
          THEN IF h.kind = "malformed"
               THEN \* float() raises ValueError: not a RequestException, propagates
                    /\ fr_pc' = "raised"
                    /\ fr_error' = "ValueError"
                    /\ UNCHANGED <<attempt, backoff, slept>>
               ELSE /\ slept' = CountdownSleep(WaitTime(h, backoff))
                    /\ backoff' = backoff * 2
                    /\ attempt' = attempt + 1
                    /\ fr_pc' = "request"
                    /\ UNCHANGED fr_error
          ELSE \* resp.raise_for_status() raises HTTPError("429 Client Error ...");
               \* the handler finds attempt < max_retries false and re-raises
               /\ fr_pc' = "raised"
               /\ fr_error' = "HTTPError"
               /\ UNCHANGED <<attempt, backoff, slept>>
  /\ UNCHANGED max_retries
  /\ UNCHANGED notRetry

\* requests.get returns a success status: raise_for_status passes (99-100).
ResponseOk ==
  /\ fr_pc = "request"
  /\ resp_log' = Append(resp_log, "ok")
  /\ fr_pc' = "returned"
  /\ UNCHANGED <<max_retries, attempt, backoff, last_reset, slept, fr_error>>
  /\ UNCHANGED notRetry

\* The handler of requests.RequestException (102-112); has429 is whether
\* "429" occurs in str(e) (the message names the url).
HandleRequestException(kind, has429, err) ==
  /\ resp_log' = Append(resp_log, kind)
  /\ IF RetriesRemain(attempt, max_retries) /\ has429
     THEN /\ slept' = CountdownSleep(SecondsToMs(backoff))
          /\ backoff' = backoff * 2
          /\ attempt' = attempt + 1
          /\ fr_pc' = "request"
          /\ UNCHANGED fr_error
     ELSE /\ fr_pc' = "raised"
          /\ fr_error' = err
          /\ UNCHANGED <<attempt, backoff, slept>>
  /\ UNCHANGED <<max_retries, last_reset>>
  /\ UNCHANGED notRetry

\* requests.get returns an error status other than 429: raise_for_status
\* raises HTTPError (99), handled at 102.
ResponseErrorStatus ==
  /\ fr_pc = "request"
  /\ \E has429 \in BOOLEAN : HandleRequestException("error_status", has429, "HTTPError")

\* requests.get itself raises (connection error, timeout), handled at 102.
RequestRaises ==
  /\ fr_pc = "request"
  /\ \E has429 \in BOOLEAN : HandleRequestException("exception", has429, "RequestException")

(***************************************************************************)
(* Claims about fetch_with_retry (SpecRetry).                              *)
(***************************************************************************)
\* The last response was a 429 that was retried: the sleep is over and the
\* next request is about to be sent.
RetriedAfter429 ==
  /\ fr_pc = "request"
  /\ attempt > 0
  /\ resp_log[Len(resp_log)] = "429"

\* C1: whenever a request returns 429 and retries remain, the time slept
\* before the next request is at least max(R, b) seconds, R the
\* X-Ratelimit-Reset header of that response (b when absent) and b the
\* backoff, 1 before the first retry and doubled after every retry.
C1_SleepsAtLeastMax ==
  RetriedAfter429 =>
    LET b == Pow2(attempt - 1)
        R == IF last_reset.kind = "absent" THEN SecondsToMs(b) ELSE last_reset.ms
    IN SecondsToMs(slept) >= Max(R, SecondsToMs(b))

AllAre429 == \A k \in 1..Len(resp_log) : resp_log[k] = "429"

\* A success is returned at once: it is the last response, and the only one.
ReturnsFirstSuccess ==
  /\ fr_pc = "returned" <=> (resp_log # <<>> /\ resp_log[Len(resp_log)] = "ok")
  /\ \A k \in 1..Len(resp_log) : resp_log[k] = "ok" => k = Len(resp_log)

\* C2 as stated: at most n+1 requests; a permanent failure only when the
\* (n+1)-th consecutive response is 429, never earlier; the first success is
\* returned as soon as it arrives.
C2_FailsOnlyAfterBudget ==
  /\ Len(resp_log) <= max_retries + 1
  /\ fr_pc = "raised" => (Len(resp_log) = max_retries + 1 /\ AllAre429)
  /\ ReturnsFirstSuccess

\* C2 as amended: at most n+1 requests; a 429 whose reset header is absent or
\* a number ends the fetch only as the (n+1)-th response; a failure before
\* that is a 429 with a reset header float() rejects, an error status other
\* than 429 or an exception of requests.get; the first success is returned as
\* soon as it arrives.
C2_429FailsOnlyAfterBudget ==
  /\ Len(resp_log) <= max_retries + 1
  /\ fr_pc = "raised" =>
       \/ /\ resp_log[Len(resp_log)] = "429"
          /\ Len(resp_log) = max_retries + 1
          /\ fr_error = "HTTPError"
       \/ /\ resp_log[Len(resp_log)] = "429"
          /\ last_reset.kind = "malformed"
          /\ fr_error = "ValueError"
       \/ resp_log[Len(resp_log)] \in {"error_status", "exception"}
  /\ fr_pc = "request" => Len(resp_log) = attempt /\ attempt <= max_retries
  /\ ReturnsFirstSuccess

\* The budget of 3 retries is used up by four consecutive 429 responses.
C2_Witness ==
  /\ fr_pc = "raised"
  /\ max_retries = 3
  /\ Len(resp_log) = 4
  /\ AllAre429
  /\ last_reset.kind # "malformed"

\* C23: when the retries are used up, that is when the response that follows
\* max_retries retried 429 responses is a 429 too, fetch_with_retry raises
\* RuntimeError ("Max retries exhausted").
C23_ExhaustedRaisesRuntimeError ==
  (fr_pc = "raised" /\ AllAre429 /\ Len(resp_log) = max_retries + 1) =>
    fr_error = "RuntimeError"

(***************************************************************************)
(* The posts table and the SQLAlchemy session of the fetch command.        *)
(***************************************************************************)
RedditIds == {"a1", "a2"}

RECURSIVE SeqsUpTo(_, _)
\* All sequences over S of length at most n.
SeqsUpTo(S, n) ==
  IF n = 0 THEN {<<>>}
  ELSE LET shorter == SeqsUpTo(S, n - 1)
       IN shorter \cup {Append(q, x) : q \in {r \in shorter : Len(r) = n - 1}, x \in S}

\* What fetch_subreddit_json can return as posts (json_fetcher.py 158-177).
Listings == SeqsUpTo(RedditIds, MaxListing)

Range(q) == {q[k] : k \in 1..Len(q)}

\* The reddit ids of a sequence of rows.
IdsOf(rows) == {rows[k].reddit_id : k \in 1..Len(rows)}

\* The listing entries kept by a test, in order.
RECURSIVE FilterIds(_, _)
FilterIds(q, drop) ==
  IF q = <<>> THEN <<>>
  ELSE IF q[1] \in drop THEN FilterIds(Tail(q), drop)
       ELSE <<q[1]>> \o FilterIds(Tail(q), drop)

\* A comment as fetch_comments builds it (comment_fetcher.py 88-92), and a
\* child of the comments listing: kind "t1" is a comment.
Child(kind, body, score) == [kind |-> kind, body |-> body, score |-> score]

Comment(c) == [body |-> c.body, score |-> c.score]

\* Payloads of a 200 response to the comments request: the decoded JSON is
\* shorter than 2 ("short"), lacks the keys read at 83-91 ("malformed"), or
\* carries the children of data[1].
CommentPayloads ==
  { [shape |-> "short", children |-> <<>>],
    [shape |-> "malformed", children |-> <<>>],
    [shape |-> "listing", children |-> <<>>],
    [shape |-> "listing", children |-> <<Child("t1", "c1", 3), Child("more", "", 0),
                                         Child("t1", "c2", 7)>>] }

\* comment_limit of the fetch command (cli/main.py 110).
DefaultCommentLimit == 10

\* max_retries of fetch_comments (comment_fetcher.py 27).
CommentMaxRetries == 3

RECURSIVE InsertByScore(_, _)
\* c placed in q, sorted by score descending, after the entries of equal score.
InsertByScore(q, c) ==
  IF q = <<>> THEN <<c>>
  ELSE IF c.score > q[1].score THEN <<c>> \o q
       ELSE <<q[1]>> \o InsertByScore(Tail(q), c)

RECURSIVE SortByScoreDesc(_)
\* comments.sort(key=score, reverse=True): stable (comment_fetcher.py 95).
SortByScoreDesc(q) ==
  IF q = <<>> THEN <<>>
  ELSE InsertByScore(SortByScoreDesc(SubSeq(q, 1, Len(q) - 1)), q[Len(q)])

RECURSIVE CommentsOf(_)
\* The loop over data[1]["data"]["children"] (comment_fetcher.py 82-92).
CommentsOf(children) ==
  IF children = <<>> THEN <<>>
  ELSE IF children[1].kind # "t1" THEN CommentsOf(Tail(children))
       ELSE <<Comment(children[1])>> \o CommentsOf(Tail(children))

Take(q, n) == SubSeq(q, 1, Min(n, Len(q)))

\* The body of fetch_comments' try block for a 200 response (75-96): what it
\* returns, or that it raises.
ParseComments(payload, limit) ==
  CASE payload.shape = "short" -> [kind |-> "return", value |-> <<>>]
    [] payload.shape = "malformed" -> [kind |-> "raise", value |-> <<>>]
    [] OTHER -> [kind |-> "return",
                 value |-> Take(SortByScoreDesc(CommentsOf(payload.children)), limit)]

\* No handler: the exception leaves fetch_comments.
CatchNothing(outcome) == outcome

\* `except Exception: return []` (comment_fetcher.py 98-99).
CatchAll(outcome) ==
  IF outcome.kind = "raise" THEN [kind |-> "return", value |-> <<>>] ELSE outcome

\* One iteration of fetch_comments' loop on a response (51-99).  resp.status is
\* "429", "ok", "error_status" (raise_for_status raises) or "exception"
\* (requests.get raises).  The outcome is continue, return or raise.
FetchCommentsIteration(resp, att, limit) ==
  CatchAll(
    CASE resp.status = "429" ->
           IF att < CommentMaxRetries
           THEN IF resp.reset.kind = "malformed"
                THEN [kind |-> "raise", value |-> <<>>]
                ELSE [kind |-> "continue", value |-> <<>>]
           ELSE [kind |-> "return", value |-> <<>>]
      [] resp.status = "ok" -> ParseComments(resp.payload, limit)
      [] OTHER -> [kind |-> "raise", value |-> <<>>])

\* A failed fetch: the last 429 of the budget, or any error.
IsFailure(resp, att) ==
  \/ resp.status \in {"error_status", "exception"}
  \/ resp.status = "429" /\ (att >= CommentMaxRetries \/ resp.reset.kind = "malformed")
  \/ resp.status = "ok" /\ resp.payload.shape = "malformed"

NoPayload == [shape |-> "short", children |-> <<>>]

CommentResponses ==
  {[status |-> "429", reset |-> h, payload |-> NoPayload] : h \in {NoHeader, BadHeader, NumHeader(1500)}}
  \cup {[status |-> "ok", reset |-> NoHeader, payload |-> p] : p \in CommentPayloads}
  \cup {[status |-> st, reset |-> NoHeader, payload |-> NoPayload] : st \in {"error_status", "exception"}}

Row(id, comments) == [reddit_id |-> id, comments |-> comments]

FetchPositions == {"idle", "between", "listing", "wait", "request", "save", "commit",
                   "exit", "crashed"}

\* The positions inside the loop that fetches comments (json_fetcher.py 267-282).
CommentPhase == {"wait", "request"}

IdleFetch ==
  /\ f_pc = "idle"
  /\ stored = <<>>
  /\ flushed = <<>>
  /\ pending = <<>>
  /\ n_subs = 0
  /\ sub_i = 0
  /\ last_response = 0
  /\ waited_on = <<>>
  /\ outcomes = <<>>
  /\ bad_headers = {}
  /\ posts = <<>>
  /\ new_posts_to_fetch = <<>>
  /\ posts_with_comments = <<>>
  /\ fc_log = <<>>
  /\ fc_attempt = 0
  /\ fc_backoff = 1
  /\ saved = 0
  /\ new_posts = 0
  /\ total_posts = 0
  /\ batch_error = "none"
  /\ runs = 0

InitFetch == IdleFetch

batchLocals == <<posts, new_posts_to_fetch, posts_with_comments, fc_log, fc_attempt,
                 fc_backoff, saved, new_posts>>

\* `fetch` is run: get_session() opens a session (cli/main.py 126-136).
StartFetch ==
  /\ UNCHANGED notFetch
  /\ f_pc \in {"idle", "exit", "crashed"}
  /\ runs < MaxRuns
  /\ runs' = runs + 1
  /\ n_subs' \in 1..MaxSubreddits
  /\ sub_i' = 0
  /\ last_response' = 0
  /\ waited_on' = <<>>
  /\ outcomes' = <<>>
  /\ bad_headers' = {}
  /\ total_posts' = 0
  /\ batch_error' = "none"
  /\ flushed' = <<>>
  /\ pending' = <<>>
  /\ posts' = <<>>
  /\ new_posts_to_fetch' = <<>>
  /\ posts_with_comments' = <<>>
  /\ fc_log' = <<>>
  /\ fc_attempt' = 0
  /\ fc_backoff' = 1
  /\ saved' = 0
  /\ new_posts' = 0
  /\ f_pc' = "listing"
  /\ UNCHANGED stored

\* Where main.fetch goes once a batch has ended (cli/main.py 136-140, 168):
\* the next subreddit, after the adaptive delay when there is a last response,
\* or the end of the loop.
AfterBatch(done, resp) ==
  IF done = n_subs THEN "exit"
  ELSE IF resp # 0 THEN "between" ELSE "listing"

\* A batch that raised ends the command.
BatchFailsEndsCommand(err) ==
  /\ batch_error' = err
  /\ outcomes' = Append(outcomes, IF f_pc = "listing" THEN "listing_failed" ELSE "failed")
  /\ sub_i' = sub_i + 1
  /\ f_pc' = "exit"
  /\ UNCHANGED <<stored, n_subs, last_response, total_posts, runs>>

\* The batch raised: main.fetch catches it and goes on (cli/main.py 165-168).
\* Nothing of the batch was committed; rows added and not committed stay in
\* the session's transaction only if the save loop had begun.
BatchFails(err) ==
  /\ batch_error' = err
  /\ outcomes' = Append(outcomes, IF f_pc = "listing" THEN "listing_failed" ELSE "failed")
  /\ sub_i' = sub_i + 1
  /\ f_pc' = AfterBatch(sub_i + 1, last_response)
  /\ UNCHANGED <<stored, n_subs, last_response, total_posts, runs>>

\* adaptive_delay and time.sleep between two subreddits (cli/main.py 138-140),
\* outside the try: a header float() rejects, or a negative reset, raises and
\* ends the command (get_session rolls back and closes).
WaitBetweenSubreddits ==
  /\ UNCHANGED notFetch
  /\ UNCHANGED <<bad_headers, outcomes>>
  /\ f_pc = "between"
  /\ IF last_response \in bad_headers
       THEN /\ f_pc' = "exit"
            /\ batch_error' = "ValueError"
            /\ flushed' = <<>>
            /\ pending' = <<>>
            /\ UNCHANGED waited_on
       ELSE /\ f_pc' = "listing"
            /\ waited_on' = Append(waited_on, <<sub_i + 1, last_response>>)
            /\ UNCHANGED <<batch_error, flushed, pending>>
  /\ UNCHANGED <<stored, n_subs, sub_i, last_response, total_posts, runs>>
  /\ UNCHANGED batchLocals

\* No filter: comments are fetched for every post of the listing.
NewPostsUnfiltered(listing, rows) == listing

\* existing_ids and new_posts_to_fetch (json_fetcher.py 258-265).
NewPostsToFetch(listing, rows) == FilterIds(listing, IdsOf(rows))

\* fetch_subreddit_json returns a listing (json_fetcher.py 247-265).
FetchListing ==
  /\ UNCHANGED notFetch
  /\ UNCHANGED <<waited_on, outcomes>>
  /\ f_pc = "listing"
  \* the headers of the new response; of the earlier ones only main.fetch's
  \* last_response is still referenced
  /\ bad_headers' \in {bad_headers \cap {last_response},
                       (bad_headers \cap {last_response}) \cup {sub_i + 1}}
  /\ \E listing \in Listings :
       /\ posts' = listing
       \* the query autoflushes; it sees the committed rows and the session's own
       /\ new_posts_to_fetch' = NewPostsToFetch(listing, stored \o flushed \o pending)
       /\ f_pc' = IF NewPostsToFetch(listing, stored \o flushed \o pending) = <<>>
                  THEN "save" ELSE "wait"
  /\ flushed' = flushed \o pending
  /\ pending' = <<>>
  /\ posts_with_comments' = <<>>
  /\ fc_log' = <<>>
  /\ fc_attempt' = 0
  /\ fc_backoff' = 1
  /\ saved' = 0
  /\ new_posts' = 0
  /\ batch_error' = "none"
  /\ UNCHANGED <<stored, n_subs, sub_i, last_response, total_posts, runs>>

\* fetch_subreddit_json raises RuntimeError (json_fetcher.py 179-180).
FetchListingFails ==
  /\ UNCHANGED notFetch
  /\ UNCHANGED <<waited_on, bad_headers>>
  /\ f_pc = "listing"
  /\ BatchFails("RuntimeError")
  /\ UNCHANGED <<flushed, pending>>
  /\ UNCHANGED batchLocals

\* The delay before a comment fetch (json_fetcher.py 276-278), computed from
\* the batch's listing response; adaptive_delay or time.sleep may raise
\* ValueError, which ends the batch.
WaitBeforeComments ==
  /\ UNCHANGED notFetch
  /\ UNCHANGED <<waited_on, bad_headers>>
  /\ f_pc = "wait"
  /\ IF (sub_i + 1) \in bad_headers
       THEN /\ BatchFails("ValueError")
            /\ UNCHANGED <<fc_attempt, fc_backoff>>
       ELSE /\ f_pc' = "request"
            /\ fc_attempt' = 0
            /\ fc_backoff' = 1
            /\ UNCHANGED outcomes
            /\ UNCHANGED <<stored, n_subs, sub_i, last_response, total_posts, runs,
                           batch_error>>
  /\ UNCHANGED <<flushed, pending, posts, new_posts_to_fetch, posts_with_comments,
                 fc_log, saved, new_posts>>

\* Saving as soon as one post's comments are in.
SaveAfterEachFetch(done, total) == "save"

\* The comment loop goes on while posts are left, then the save loop starts
\* (json_fetcher.py 267, 284-290).
AfterCommentFetch(done, total) == IF done = total THEN "save" ELSE "wait"

\* fetch_comments gets a response to its request (comment_fetcher.py 51-99) and
\* fetch_and_save_subreddit_json takes what it returns (json_fetcher.py 281-282).
CommentResponse ==
  /\ UNCHANGED notFetch
  /\ UNCHANGED <<waited_on, bad_headers>>
  /\ f_pc = "request"
  /\ \E resp \in CommentResponses :
       LET out  == FetchCommentsIteration(resp, fc_attempt, DefaultCommentLimit)
           post == new_posts_to_fetch[Len(posts_with_comments) + 1]
       IN CASE out.kind = "continue" ->
                 /\ fc_attempt' = fc_attempt + 1
                 /\ fc_backoff' = fc_backoff * 2
                 /\ UNCHANGED <<f_pc, posts_with_comments, fc_log, batch_error, sub_i,
                                outcomes>>
            [] out.kind = "return" ->
                 /\ posts_with_comments' = Append(posts_with_comments, Row(post, out.value))
                 /\ fc_log' = Append(fc_log, IF IsFailure(resp, fc_attempt)
                                             THEN "failed" ELSE "ok")
                 /\ f_pc' = AfterCommentFetch(Len(posts_with_comments) + 1,
                                              Len(new_posts_to_fetch))
                 /\ UNCHANGED <<fc_attempt, fc_backoff, batch_error, sub_i, outcomes>>
            [] OTHER -> \* fetch_comments raised: the batch ends in main.fetch's handler
                 /\ batch_error' = "Exception"
                 /\ outcomes' = Append(outcomes, "failed")
                 /\ sub_i' = sub_i + 1
                 /\ f_pc' = AfterBatch(sub_i + 1, last_response)
                 /\ UNCHANGED <<posts_with_comments, fc_log, fc_attempt, fc_backoff>>
  /\ UNCHANGED <<stored, flushed, pending, n_subs, last_response, posts,
                 new_posts_to_fetch, saved, new_posts, total_posts, runs>>

\* INSERT of rows into posts, whose reddit_id is unique (db/models.py 35).
UniqueViolation(rows, present) ==
  \/ \E k \in 1..Len(rows) : rows[k].reddit_id \in present
  \/ \E j, k \in 1..Len(rows) : j # k /\ rows[j].reddit_id = rows[k].reddit_id

\* save_json_post_to_db's existence test (json_fetcher.py 199-201): the query
\* autoflushes, then sees the committed rows and the flushed ones.
Existing(id, rows) == id \in IdsOf(rows)

\* One iteration of the save loop (json_fetcher.py 290-294).
SavePost ==
  /\ UNCHANGED notFetch
  /\ UNCHANGED <<waited_on, bad_headers>>
  /\ f_pc = "save"
  /\ saved < Len(posts_with_comments)
  /\ LET entry == posts_with_comments[saved + 1]
     IN IF UniqueViolation(pending, IdsOf(stored \o flushed))
        THEN \* the autoflush raises IntegrityError
             /\ BatchFails("IntegrityError")
             /\ flushed' = <<>>
             /\ pending' = <<>>
             /\ UNCHANGED <<saved, new_posts>>
        ELSE /\ flushed' = flushed \o pending
             /\ saved' = saved + 1
             /\ IF Existing(entry.reddit_id, stored \o flushed \o pending)
                THEN /\ pending' = <<>>
                     /\ UNCHANGED new_posts
                ELSE /\ pending' = <<entry>>
                     /\ new_posts' = new_posts + 1
             /\ UNCHANGED <<f_pc, stored, n_subs, sub_i, last_response, total_posts, runs,
                            batch_error, outcomes>>
  /\ UNCHANGED <<posts, new_posts_to_fetch, posts_with_comments, fc_log, fc_attempt,
                 fc_backoff>>

\* The save loop is over.
SaveLoopEnds ==
  /\ UNCHANGED notFetch
  /\ UNCHANGED <<waited_on, bad_headers, outcomes>>
  /\ f_pc = "save"
  /\ saved = Len(posts_with_comments)
  /\ f_pc' = "commit"
  /\ UNCHANGED <<stored, flushed, pending, n_subs, sub_i, last_response, total_posts,
                 runs, batch_error>>
  /\ UNCHANGED batchLocals

\* session.commit() and the return to main.fetch (json_fetcher.py 297-299,
\* cli/main.py 150-164).
CommitBatch ==
  /\ UNCHANGED notFetch
  /\ UNCHANGED <<waited_on, bad_headers>>
  /\ f_pc = "commit"
  /\ IF UniqueViolation(pending, IdsOf(stored \o flushed))
     THEN /\ BatchFails("IntegrityError")
     ELSE /\ stored' = stored \o flushed \o pending
          /\ total_posts' = total_posts + new_posts
          /\ sub_i' = sub_i + 1
          /\ last_response' = sub_i + 1
          /\ outcomes' = Append(outcomes, "committed")
          /\ f_pc' = AfterBatch(sub_i + 1, sub_i + 1)
          /\ UNCHANGED <<n_subs, runs, batch_error>>
  /\ flushed' = <<>>
  /\ pending' = <<>>
  /\ UNCHANGED batchLocals

\* The process is stopped (killed, interrupted): the session's open
\* transaction is lost, the committed rows stay.
FetchStops ==
  /\ UNCHANGED notFetch
  /\ UNCHANGED <<waited_on, bad_headers, outcomes>>
  /\ f_pc \in {"between", "listing", "wait", "request", "save", "commit"}
  /\ f_pc' = "crashed"
  /\ flushed' = <<>>
  /\ pending' = <<>>
  /\ UNCHANGED <<stored, n_subs, sub_i, last_response, total_posts, runs, batch_error>>
  /\ UNCHANGED batchLocals

(***************************************************************************)
(* Claims about the fetch command (SpecFetch).                             *)
(***************************************************************************)
\* The last batch returned to main.fetch after its commit; its locals are
\* still those of that batch.
BatchCommitted ==
  /\ f_pc \in {"between", "listing", "exit"}
  /\ sub_i > 0
  /\ batch_error = "none"

FirstOccurrence(q, k) == \A j \in 1..(k - 1) : q[j] # q[k]

\* C3: fetch_comments never propagates a failure: after max_retries+1
\* consecutive 429 responses, or on any network, HTTP-status or payload error,
\* it returns an empty list, and the post concerned is still saved, with an
\* empty comment list, together with the rest of its batch.
C3_CommentFailureIsSoft ==
  /\ batch_error # "Exception"
  /\ Len(fc_log) = Len(posts_with_comments)
  /\ \A k \in 1..Len(fc_log) :
       fc_log[k] = "failed" => posts_with_comments[k].comments = <<>>
  /\ BatchCommitted =>
       /\ Len(posts_with_comments) = Len(new_posts_to_fetch)
       /\ \A k \in 1..Len(new_posts_to_fetch) :
            \E j \in 1..Len(stored) :
              /\ stored[j].reddit_id = new_posts_to_fetch[k]
              /\ (fc_log[k] = "failed" /\ FirstOccurrence(new_posts_to_fetch, k))
                   => stored[j].comments = <<>>

\* A batch of two posts is committed: the first with its comments, the second
\* with none after four consecutive 429 responses.
C3_Witness ==
  /\ BatchCommitted
  /\ new_posts_to_fetch = <<"a1", "a2">>
  /\ fc_log = <<"ok", "failed">>
  /\ fc_attempt = CommentMaxRetries
  /\ \E j, k \in 1..Len(stored) :
       /\ stored[j].reddit_id = "a1" /\ stored[j].comments # <<>>
       /\ stored[k].reddit_id = "a2" /\ stored[k].comments = <<>>

\* C4: fetching is idempotent: no two stored posts share a reddit_id, no
\* comment fetch is issued for a post already stored, and a batch reports as
\* new exactly the reddit ids of its listing that were not stored before it
\* (zero for a listing already stored).
C4_FetchIdempotent ==
  /\ \A j, k \in 1..Len(stored) :
       stored[j].reddit_id = stored[k].reddit_id => j = k
  /\ f_pc \in CommentPhase =>
       /\ Len(posts_with_comments) < Len(new_posts_to_fetch)
       /\ new_posts_to_fetch[Len(posts_with_comments) + 1] \notin IdsOf(stored)
  /\ f_pc \in CommentPhase \cup {"save", "commit"} =>
       Range(new_posts_to_fetch) = Range(posts) \ IdsOf(stored)
  /\ BatchCommitted =>
       /\ new_posts <= Len(stored)
       /\ LET before == SubSeq(stored, 1, Len(stored) - new_posts)
              added  == SubSeq(stored, Len(stored) - new_posts + 1, Len(stored))
          IN /\ IdsOf(added) = Range(posts) \ IdsOf(before)
             /\ Cardinality(IdsOf(added)) = new_posts
             /\ Len(fc_log) = Len(FilterIds(posts, IdsOf(before)))

\* A listing of two stored posts is fetched again: nothing new, no comment
\* fetch.
C4_Witness ==
  /\ BatchCommitted
  /\ runs = 2
  /\ posts = <<"a1", "a2">>
  /\ IdsOf(stored) = {"a1", "a2"}
  /\ Len(stored) = 2
  /\ new_posts = 0
  /\ total_posts = 0
  /\ fc_log = <<>>
  /\ new_posts_to_fetch = <<>>

IsPrefix(p, q) == Len(p) <= Len(q) /\ SubSeq(q, 1, Len(p)) = p

\* C5: per-batch atomicity: the stored posts change only at the batch's
\* commit, which comes after the comment fetch of every new post of the
\* batch and only adds rows; while comments are fetched the session holds no
\* row, so a stop there leaves the stored posts as they were before the
\* batch, and the rows of earlier batches stay.
C5_BatchAtomic ==
  /\ [](f_pc \in CommentPhase => (flushed = <<>> /\ pending = <<>>))
  /\ [][ /\ stored' # stored =>
              /\ f_pc = "commit"
              /\ Len(posts_with_comments) = Len(new_posts_to_fetch)
              /\ IsPrefix(stored, stored')
              /\ stored' = stored \o flushed \o pending
              /\ IdsOf(flushed \o pending) = Range(new_posts_to_fetch)
         /\ (f_pc \in CommentPhase /\ f_pc' = "crashed") =>
              (stored' = stored /\ flushed' = <<>> /\ pending' = <<>>) ]_vars

\* The process stops in the middle of the second batch's comment fetch, the
\* first batch being stored.
C5_Witness ==
  /\ f_pc = "crashed"
  /\ stored # <<>>
  /\ new_posts_to_fetch # <<>>
  /\ Len(posts_with_comments) < Len(new_posts_to_fetch)
  /\ fc_attempt > 0
  /\ sub_i = 1

\* C20: whenever the fetch command is about to request the listing of a
\* subreddit after the first, it has waited before that subreddit for the
\* adaptive delay computed from the response of the subreddit just before it,
\* whether that subreddit's batch succeeded or failed.
C20_WaitsOnPrecedingResponse ==
  (f_pc = "listing" /\ sub_i >= 1) =>
    \E k \in 1..Len(waited_on) : waited_on[k] = <<sub_i + 1, sub_i>>

\* The step in which the listing fetch of a subreddit fails.
ListingFailure ==
  /\ f_pc = "listing"
  /\ outcomes' = Append(outcomes, "listing_failed")

\* C26: a failure of one subreddit's listing fetch is confined to that
\* subreddit: it is caught and recorded for it, the posts stored so far stay
\* and the totals do not move; the command goes on with the next subreddit
\* when one is left, and the wait before that one does not raise; the command
\* ends before its last subreddit only after a batch that was committed; the
\* totals grow only by the new posts of a batch at its commit.
C26_ListingFailureConfined ==
  /\ [][ListingFailure =>
          /\ batch_error' = "RuntimeError"
          /\ stored' = stored
          /\ total_posts' = total_posts
          /\ sub_i' = sub_i + 1
          /\ f_pc' = IF sub_i + 1 = n_subs THEN "exit"
                     ELSE IF last_response = 0 THEN "listing" ELSE "between"]_vars
  /\ []((f_pc = "between" /\ outcomes[sub_i] # "committed") =>
          last_response \notin bad_headers)
  /\ []((f_pc = "exit" /\ sub_i < n_subs) =>
          (sub_i > 0 /\ outcomes[sub_i] = "committed"))
  /\ [][IsPrefix(stored, stored')]_vars
  /\ [][(total_posts' # total_posts /\ f_pc \in FetchPositions \ {"idle", "exit", "crashed"}) =>
          /\ f_pc = "commit"
          /\ outcomes' = Append(outcomes, "committed")
          /\ total_posts' = total_posts + new_posts]_vars

\* A command for two subreddits has ended: the listing of the first failed,
\* the batch of the second was committed with a new post, which the total
\* counts.
C26_Witness ==
  /\ f_pc = "exit"
  /\ runs = 1
  /\ n_subs = 2
  /\ outcomes = <<"listing_failed", "committed">>
  /\ stored # <<>>
  /\ total_posts = Len(stored)

(***************************************************************************)
(* The generate command.  The posts table is fixed while it runs: three    *)
(* posts, two of them of equal score.                                      *)
(***************************************************************************)
GenPosts == {"p1", "p2", "p3", "p4"}

\* The posts the table holds while episodes are generated.
FetchedPosts == {"p1", "p2", "p3"}

ScoreOf(p) == CASE p = "p1" -> 10 [] p = "p2" -> 7 [] p = "p3" -> 7 [] OTHER -> 3

SubredditOf(p) ==
  CASE p = "p1" -> "python" [] p = "p2" -> "rust" [] p = "p3" -> "python" [] OTHER -> "rust"

Users == {"alice", "bob"}

SubredditFilters == {{}, {"python"}}

Episode(id, user, count, audio) ==
  [id |-> id, user |-> user, post_count |-> count, audio_path |-> audio]

\* The posts associated with episode id in a post_episodes table.
PostsOf(id, assoc) == {a[1] : a \in {b \in assoc : b[2] = id}}

\* Post.episodes.any(Episode.user_id == user.id) (generator.py 91).
CoveredFor(p, user, episodes, assoc) ==
  \E e \in episodes : e.user = user /\ <<p, e.id>> \in assoc

\* A pool that ignores what the user's episodes cover.
PoolIgnoringCovered(user, include, subs, episodes, assoc) ==
  {p \in db_posts : subs = {} \/ SubredditOf(p) \in subs}

\* A pool that leaves out the posts any user's episode covers.
PoolExcludingAnyUser(user, include, subs, episodes, assoc) ==
  {p \in db_posts :
     /\ include \/ ~(\E u \in Users : CoveredFor(p, u, episodes, assoc))
     /\ subs = {} \/ SubredditOf(p) \in subs}

\* The query of generate_episode (generator.py 87-94).
CandidatePool(user, include, subs, episodes, assoc) ==
  {p \in db_posts :
     /\ include \/ ~CoveredFor(p, user, episodes, assoc)
     /\ subs = {} \/ SubredditOf(p) \in subs}

\* All orderings of the n-element subsets of S.
Arrangements(S, n) ==
  {q \in SeqsUpTo(S, n) : Len(q) = n /\ \A j, k \in 1..n : q[j] = q[k] => j = k}

\* query.order_by(Post.score.desc()).limit(limit).all() (generator.py 98): the
\* database orders posts of equal score as it likes.
TopByScore(pool, limit) ==
  {q \in Arrangements(pool, Min(limit, Cardinality(pool))) :
     /\ \A k \in 1..(Len(q) - 1) : ScoreOf(q[k]) >= ScoreOf(q[k + 1])
     /\ \A p \in pool \ Range(q) : \A k \in 1..Len(q) : ScoreOf(p) <= ScoreOf(q[k])}

\* A window that is the whole pool.
WindowWholePool(pool, limit) == {pool}

\* query.limit(limit * 3).all() (generator.py 104): any limit*3 rows of the pool.
CandidateWindows(pool, limit) ==
  {w \in SUBSET pool : Cardinality(w) = Min(limit * 3, Cardinality(pool))}

\* random.sample(candidate_posts, min(limit, len(candidate_posts))) (107).
RandomSample(window, limit) ==
  Arrangements(window, Min(limit, Cardinality(window)))

\* The selections generate_episode can make (generator.py 96-108), as
\* <<candidate_posts, posts>>.
Selections(pool, limit, by_score) ==
  IF by_score THEN {<<{}, q>> : q \in TopByScore(pool, limit)}
  ELSE UNION {{<<w, q>> : q \in RandomSample(w, limit)} : w \in CandidateWindows(pool, limit)}

GenPositions == {"idle", "query", "selected", "synthesized", "flushed", "committed",
                 "done", "crashed"}

\* No generate command is running.
GenAtRest == g_pc \in {"idle", "done", "crashed"}

IdleGen ==
  /\ g_pc = "idle"
  /\ db_posts = FetchedPosts
  /\ db_users = {}
  /\ db_episodes = {}
  /\ db_assoc = {}
  /\ tx_users = {}
  /\ tx_episodes = {}
  /\ tx_assoc = {}
  /\ g_user = "alice"
  /\ g_limit = 1
  /\ g_by_score = FALSE
  /\ g_include = FALSE
  /\ g_subreddits = {}
  /\ g_posts = <<>>
  /\ candidate_posts = {}
  /\ g_audio = "none"
  /\ g_episode = 0
  /\ g_appended = 0
  /\ override_used = FALSE
  /\ exit_code = -1
  /\ g_error = "none"

InitGen == IdleGen

\* generate_episode is at its query, with any posts table, and either no
\* episode yet or one episode of alice that covers p1.
InitSelect ==
  /\ g_pc = "query"
  /\ db_posts \in SUBSET GenPosts
  /\ \/ /\ db_users = {}
        /\ db_episodes = {}
        /\ db_assoc = {}
     \/ /\ "p1" \in db_posts
        /\ db_users = {"alice"}
        /\ db_episodes = {Episode(1, "alice", 1, "file")}
        /\ db_assoc = {<<"p1", 1>>}
  /\ g_user \in Users
  /\ g_limit \in 1..MaxLimit
  /\ g_by_score \in BOOLEAN
  /\ g_include \in BOOLEAN
  /\ g_subreddits \in SubredditFilters
  /\ tx_users = IF g_user \in db_users THEN {} ELSE {g_user}
  /\ tx_episodes = {}
  /\ tx_assoc = {}
  /\ g_posts = <<>>
  /\ candidate_posts = {}
  /\ g_audio = "none"
  /\ g_episode = 0
  /\ g_appended = 0
  /\ override_used = g_include
  /\ exit_code = -1
  /\ g_error = "none"

genParams == <<g_user, g_limit, g_by_score, g_include, g_subreddits>>

genDb == <<db_users, db_episodes, db_assoc>>

genTx == <<tx_users, tx_episodes, tx_assoc>>

\* The ids of the episodes the database holds.
UsedEpisodeIds == {e.id : e \in db_episodes} \cup {a[2] : a \in db_assoc}

\* The ids a new episode can get: uuid4 gives one no row has; which one does
\* not matter, so the smallest stands for all.
FreshEpisodeIds ==
  LET free == (1..MaxEpisodes) \ UsedEpisodeIds
  IN {id \in free : \A other \in free : id <= other}

\* `generate` is run: the session opens and get_or_create_user flushes the
\* user when it is new (cli/main.py 309-311, 240-249).
StartGenerate ==
  /\ UNCHANGED notGen
  /\ UNCHANGED db_posts
  /\ GenAtRest
  /\ \E u \in Users, n \in 1..MaxLimit, by_score \in BOOLEAN, include \in BOOLEAN,
        subs \in SubredditFilters :
       /\ g_user' = u
       /\ g_limit' = n
       /\ g_by_score' = by_score
       /\ g_include' = include
       /\ g_subreddits' = subs
       /\ tx_users' = IF u \in db_users THEN {} ELSE {u}
       /\ override_used' = (override_used \/ include)
  /\ tx_episodes' = {}
  /\ tx_assoc' = {}
  /\ g_posts' = <<>>
  /\ candidate_posts' = {}
  /\ g_audio' = "none"
  /\ g_episode' = 0
  /\ g_appended' = 0
  /\ exit_code' = -1
  /\ g_error' = "none"
  /\ g_pc' = "query"
  /\ UNCHANGED genDb

\* The process ends: its locals are gone.
LocalsGone ==
  /\ g_user' = "alice"
  /\ g_limit' = 1
  /\ g_by_score' = FALSE
  /\ g_include' = FALSE
  /\ g_subreddits' = {}
  /\ g_posts' = <<>>
  /\ candidate_posts' = {}
  /\ g_audio' = "none"
  /\ g_episode' = 0
  /\ g_appended' = 0

\* A command that ends without an error status.
ExitSilently ==
  /\ g_pc' = "done"
  /\ exit_code' = 0
  /\ tx_users' = {}
  /\ tx_episodes' = {}
  /\ tx_assoc' = {}
  /\ LocalsGone
  /\ UNCHANGED genDb

\* What can end generate_episode between the selection and the episode row:
\* the backend name is none of the four (generator.py 293-294), the backend
\* found no speaker segments (macos_tts.py 113-114, chatterbox_tts.py 53-54),
\* settings has no google_cloud_voice_1 (generator.py 287, settings.py), or
\* anything else a provider or the file system raises.  "All chunks failed"
\* is raised by generate_audio_google_cloud only, which line 287 never reaches.
SynthesisErrors == {"unknown_backend", "no_segments", "missing_setting", "other"}

\* An exception reaches main.generate's handlers, which raise typer.Exit(1);
\* get_session rolls back and closes (cli/main.py 359-364, db/session.py 40-44).
ExitWithError ==
  /\ g_pc' = "done"
  /\ exit_code' = 1
  /\ tx_users' = {}
  /\ tx_episodes' = {}
  /\ tx_assoc' = {}
  /\ LocalsGone
  /\ UNCHANGED genDb

\* The query returns posts and the selection is made (generator.py 87-108).
SelectPosts ==
  /\ UNCHANGED notGen
  /\ UNCHANGED db_posts
  /\ g_pc = "query"
  /\ LET pool == CandidatePool(g_user, g_include, g_subreddits,
                               db_episodes \cup tx_episodes, db_assoc \cup tx_assoc)
     IN /\ pool # {}
        /\ \E sel \in Selections(pool, g_limit, g_by_score) :
             /\ candidate_posts' = sel[1]
             /\ g_posts' = sel[2]
  /\ g_pc' = "selected"
  /\ UNCHANGED <<genDb, genTx, genParams, g_audio, g_episode, g_appended,
                 override_used, exit_code, g_error>>

\* The query returns nothing: ValueError (generator.py 99-100, 105-106).
NoPostsFound ==
  /\ UNCHANGED notGen
  /\ UNCHANGED db_posts
  /\ g_pc = "query"
  /\ CandidatePool(g_user, g_include, g_subreddits,
                   db_episodes \cup tx_episodes, db_assoc \cup tx_assoc) = {}
  /\ ExitWithError
  /\ g_error' = "empty_pool"
  /\ UNCHANGED override_used

\* Transcript generation and the TTS backend return an audio path
\* (generator.py 147-297).
SynthesisSucceeds ==
  /\ UNCHANGED notGen
  /\ UNCHANGED db_posts
  /\ g_pc = "selected"
  /\ g_audio' = "file"
  /\ g_pc' = "synthesized"
  /\ UNCHANGED <<genDb, genTx, genParams, g_posts, candidate_posts, g_episode, g_appended,
                 override_used, exit_code, g_error>>

\* Transcript generation or the backend raises (no audio, no transcript,
\* unknown backend, every chunk rejected, ...).
SynthesisFails ==
  /\ UNCHANGED notGen
  /\ UNCHANGED db_posts
  /\ g_pc = "selected"
  /\ ExitWithError
  /\ g_error' \in SynthesisErrors
  /\ UNCHANGED override_used

\* session.add(episode); session.flush() with the commit taken for the flush.
AddEpisodeAndCommit ==
  /\ UNCHANGED notGen
  /\ UNCHANGED db_posts
  /\ g_pc = "synthesized"
  /\ \E id \in FreshEpisodeIds :
       /\ g_episode' = id
       /\ db_episodes' = db_episodes \cup {Episode(id, g_user, Len(g_posts), g_audio)}
  /\ db_users' = db_users \cup tx_users
  /\ tx_users' = {}
  /\ g_pc' = "flushed"
  /\ UNCHANGED <<db_assoc, tx_episodes, tx_assoc, genParams, g_posts, candidate_posts, g_audio, g_appended,
                 override_used, exit_code, g_error>>

\* session.add(episode); session.flush() (generator.py 310-321): the row is
\* written in the open transaction.
AddEpisode ==
  /\ UNCHANGED notGen
  /\ UNCHANGED db_posts
  /\ g_pc = "synthesized"
  /\ \E id \in FreshEpisodeIds :
       /\ g_episode' = id
       /\ tx_episodes' = {Episode(id, g_user, Len(g_posts), g_audio)}
  /\ g_pc' = "flushed"
  /\ UNCHANGED <<genDb, tx_users, tx_assoc, genParams, g_posts, candidate_posts, g_audio, g_appended,
                 override_used, exit_code, g_error>>

\* One iteration of `for post in posts: post.episodes.append(episode)`
\* (generator.py 324-325).
AppendPost ==
  /\ UNCHANGED notGen
  /\ UNCHANGED db_posts
  /\ g_pc = "flushed"
  /\ g_appended < Len(g_posts)
  /\ tx_assoc' = tx_assoc \cup {<<g_posts[g_appended + 1], g_episode>>}
  /\ g_appended' = g_appended + 1
  /\ UNCHANGED <<g_pc, genDb, tx_users, tx_episodes, genParams, g_posts, candidate_posts, g_audio,
                 g_episode, override_used, exit_code, g_error>>

\* session.commit() (generator.py 327): the transaction's rows become visible.
CommitEpisode ==
  /\ UNCHANGED notGen
  /\ UNCHANGED db_posts
  /\ g_pc = "flushed"
  /\ g_appended = Len(g_posts)
  /\ db_users' = db_users \cup tx_users
  /\ db_episodes' = db_episodes \cup tx_episodes
  /\ db_assoc' = db_assoc \cup tx_assoc
  /\ tx_users' = {}
  /\ tx_episodes' = {}
  /\ tx_assoc' = {}
  /\ g_pc' = "committed"
  /\ UNCHANGED <<genParams, g_posts, candidate_posts, g_audio, g_episode, g_appended, override_used,
                 exit_code, g_error>>

\* main.generate after generate_episode returned (cli/main.py 324-357): the
\* duration update, the report and log_generation; an exception there exits 1.
FinishGenerate ==
  /\ UNCHANGED notGen
  /\ UNCHANGED db_posts
  /\ g_pc = "committed"
  /\ g_pc' = "done"
  /\ exit_code' \in {0, 1}
  /\ g_error' = IF exit_code' = 1 THEN "other" ELSE "none"
  /\ LocalsGone
  /\ UNCHANGED <<genDb, genTx, override_used>>

\* The process is stopped: the open transaction is lost.
GenerateStops ==
  /\ UNCHANGED notGen
  /\ UNCHANGED db_posts
  /\ g_pc \in {"query", "selected", "synthesized", "flushed", "committed"}
  /\ g_pc' = "crashed"
  /\ tx_users' = {}
  /\ tx_episodes' = {}
  /\ tx_assoc' = {}
  /\ LocalsGone
  /\ UNCHANGED <<genDb, override_used, exit_code, g_error>>

\* `clear --episodes`: the associations, then the episodes, are deleted in one
\* transaction (cli/main.py 199-215).
ClearEpisodes ==
  /\ UNCHANGED notGen
  /\ UNCHANGED db_posts
  /\ GenAtRest
  /\ db_episodes # {}
  /\ db_assoc' = {}
  /\ db_episodes' = {}
  /\ override_used' = FALSE
  /\ g_pc' = "idle"
  /\ exit_code' = -1
  /\ g_error' = "none"
  /\ UNCHANGED <<db_users, genTx, genParams, g_posts, candidate_posts, g_audio, g_episode, g_appended>>

(***************************************************************************)
(* Claims about the generate command (SpecGen).                            *)
(***************************************************************************)
\* The candidate pool of a user without override and without filter: the
\* user's unused posts, as the committed tables give them.
UnusedPool(user) == CandidatePool(user, FALSE, {}, db_episodes, db_assoc)

\* C6: after any sequence of generate_episode runs in which
\* include_covered_posts is false, no post is associated with two episodes of
\* the same user, and each such run selects only posts that no episode of the
\* requesting user is associated with.
C6_NoRepeatPerUser ==
  /\ ~override_used =>
       \A e1, e2 \in db_episodes :
         (e1.user = e2.user /\ e1.id # e2.id) =>
           PostsOf(e1.id, db_assoc) \cap PostsOf(e2.id, db_assoc) = {}
  /\ (g_pc \in {"selected", "synthesized", "flushed"} /\ ~g_include) =>
       \A k \in 1..Len(g_posts) :
         ~CoveredFor(g_posts[k], g_user, db_episodes, db_assoc)

\* One user owns two episodes, made without override, that cover all three
\* posts between them.
C6_Witness ==
  /\ ~override_used
  /\ \E e1, e2 \in db_episodes :
       /\ e1.id # e2.id
       /\ e1.user = e2.user
       /\ PostsOf(e1.id, db_assoc) \cup PostsOf(e2.id, db_assoc) = db_posts

\* C7: a successful generate_episode for user A creates one Episode owned by
\* A that references exactly the posts selected in that run, and leaves the
\* pool of unused posts of every other user unchanged.
C7_PerUserIsolation ==
  [][ (g_pc = "flushed" /\ g_pc' = "committed") =>
        /\ db_episodes' \ db_episodes = {Episode(g_episode, g_user, Len(g_posts), "file")}
        /\ g_episode \notin {e.id : e \in db_episodes}
        /\ db_assoc' \ db_assoc = {<<g_posts[k], g_episode>> : k \in 1..Len(g_posts)}
        /\ PostsOf(g_episode, db_assoc') = Range(g_posts)
        /\ \A e \in db_episodes : PostsOf(e.id, db_assoc') = PostsOf(e.id, db_assoc)
        /\ \A b \in Users \ {g_user} :
             CandidatePool(b, FALSE, {}, db_episodes', db_assoc') = UnusedPool(b) ]_vars

\* alice's run is committed with two posts, one of which bob's episode covers
\* too: bob's pool and alice's differ.
C7_Witness ==
  /\ g_pc = "committed"
  /\ g_user = "alice"
  /\ Len(g_posts) = 2
  /\ PostsOf(g_episode, db_assoc) = Range(g_posts)
  /\ \E e \in db_episodes :
       /\ e.user = "bob"
       /\ PostsOf(e.id, db_assoc) \cap Range(g_posts) # {}
  /\ UnusedPool("bob") # UnusedPool("alice")
  /\ UnusedPool("bob") # {}

\* C8: an Episode row is persisted only after audio synthesis has succeeded,
\* and with all its post associations at once: in every committed state each
\* stored episode carries an audio path and exactly post_count associations,
\* and every association refers to a stored episode and, while its run is at
\* the commit, to the posts selected.
C8_EpisodeAtomic ==
  /\ \A e \in db_episodes :
       /\ e.audio_path = "file"
       /\ e.post_count > 0
       /\ Cardinality(PostsOf(e.id, db_assoc)) = e.post_count
  /\ \A a \in db_assoc : \E e \in db_episodes : e.id = a[2]
  /\ g_pc \in {"query", "selected", "synthesized", "flushed"} =>
       /\ g_episode \notin {e.id : e \in db_episodes}
       /\ \A a \in db_assoc : a[2] # g_episode

\* A run has flushed its Episode and appended one of its two posts; another
\* episode is stored.  Nothing of the run is committed yet.
C8_Witness ==
  /\ g_pc = "flushed"
  /\ Len(g_posts) = 2
  /\ g_appended = 1
  /\ Cardinality(tx_assoc) = 1
  /\ tx_episodes # {}
  /\ Cardinality(db_episodes) = 1

\* The place of a post in the stored order of the posts table.
StoredRank(p) == CASE p = "p1" -> 1 [] p = "p2" -> 2 [] p = "p3" -> 3 [] OTHER -> 4

\* Post p comes before post q by descending score, ties by stored order.
RanksBefore(p, q) ==
  ScoreOf(p) > ScoreOf(q) \/ (ScoreOf(p) = ScoreOf(q) /\ StoredRank(p) < StoredRank(q))

\* C16: with sort_by_score, the posts selected from a pool of size P are the
\* min(N, P) posts of highest score in descending score order, posts of equal
\* score in stored order: the selection is determined by the pool.
C16_TopByScoreStable ==
  (g_pc = "selected" /\ g_by_score) =>
    LET pool == CandidatePool(g_user, g_include, g_subreddits,
                              db_episodes \cup tx_episodes, db_assoc \cup tx_assoc)
    IN /\ Len(g_posts) = Min(g_limit, Cardinality(pool))
       /\ Range(g_posts) \subseteq pool
       /\ \A k \in 1..(Len(g_posts) - 1) : RanksBefore(g_posts[k], g_posts[k + 1])
       /\ \A p \in pool \ Range(g_posts) :
            \A k \in 1..Len(g_posts) : RanksBefore(g_posts[k], p)

\* C17: in random mode the posts are drawn from a window of at most 3*N
\* candidates of the pool, and exactly min(N, size of the window) pairwise
\* distinct posts are selected, all of them in the candidate pool of the
\* requesting user.
C17_RandomFromWindow ==
  (g_pc = "selected" /\ ~g_by_score) =>
    LET pool == CandidatePool(g_user, g_include, g_subreddits,
                              db_episodes \cup tx_episodes, db_assoc \cup tx_assoc)
    IN /\ candidate_posts \subseteq pool
       /\ Cardinality(candidate_posts) <= 3 * g_limit
       /\ Len(g_posts) = Min(g_limit, Cardinality(candidate_posts))
       /\ \A j, k \in 1..Len(g_posts) : g_posts[j] = g_posts[k] => j = k
       /\ Range(g_posts) \subseteq candidate_posts

\* One post was drawn for alice from a window of three of her four
\* candidates; the post left out of the window is not the one drawn.
C17_Witness ==
  /\ g_pc = "selected"
  /\ ~g_by_score
  /\ g_user = "alice"
  /\ g_limit = 1
  /\ CandidatePool(g_user, g_include, g_subreddits,
                   db_episodes \cup tx_episodes, db_assoc \cup tx_assoc) = GenPosts
  /\ candidate_posts = {"p1", "p2", "p4"}
  /\ g_posts = <<"p4">>

\* The structurally fatal conditions of episode generation.
FatalConditions == {"empty_pool", "unknown_backend", "no_segments", "all_chunks_failed"}

\* C18: when a structurally fatal condition ends a generate command, the
\* command ends there with exit status 1 and is not tried again, and the run
\* has created no episode row and no association: nothing was flushed, and
\* the tables are as they were when the run began.
C18_FatalAbortsCleanly ==
  /\ [][(g_error' # g_error /\ g_error' \in FatalConditions) =>
          /\ g_pc \in {"query", "selected"}
          /\ g_pc' = "done"
          /\ exit_code' = 1
          /\ tx_episodes = {} /\ tx_assoc = {}
          /\ tx_users' = {} /\ tx_episodes' = {} /\ tx_assoc' = {}
          /\ UNCHANGED <<db_users, db_episodes, db_assoc>>]_vars
  /\ [][(g_pc \in {"query", "selected"}) =>
          (db_users' = db_users /\ db_episodes' = db_episodes /\ db_assoc' = db_assoc)]_vars
  /\ [](g_error \in FatalConditions => (g_pc = "done" /\ exit_code = 1))

\* A command found its candidate pool empty after alice's episode was stored:
\* exit status 1, and the tables hold alice's rows only.
C18_Witness ==
  /\ g_pc = "done"
  /\ g_error = "empty_pool"
  /\ exit_code = 1
  /\ db_episodes # {}
  /\ \A e \in db_episodes : e.user = "alice"
  /\ db_users = {"alice"}

\* C30: whenever the generate command exits with a nonzero status, the
\* database is as it was before the command, with no episode, association or
\* user row of that invocation: no step of a command changes the committed
\* tables before its commit, and a nonzero exit is taken only before the
\* commit.
C30_NonzeroExitLeavesDatabase ==
  /\ [][(g_pc \in {"query", "selected", "synthesized", "flushed"} /\ g_pc' # "committed") =>
          (db_users' = db_users /\ db_episodes' = db_episodes /\ db_assoc' = db_assoc)]_vars
  /\ [][(exit_code' = 1 /\ exit_code # 1) =>
          /\ g_pc \in {"query", "selected", "synthesized", "flushed"}
          /\ db_users' = db_users /\ db_episodes' = db_episodes /\ db_assoc' = db_assoc]_vars

(***************************************************************************)
(* Texts and their UTF-8 size.  A text is a sequence of runs, a run being  *)
(* n repetitions of the character of code point cp.                        *)
(***************************************************************************)
Run(cp, n) == [cp |-> cp, n |-> n]

\* The number of bytes of the UTF-8 encoding of a code point.
Utf8Width(cp) ==
  IF cp < 128 THEN 1 ELSE IF cp < 2048 THEN 2 ELSE IF cp < 65536 THEN 3 ELSE 4

RECURSIVE Utf8Len(_)
\* len(text.encode("utf-8")) (google_cloud_tts.py 92).
Utf8Len(text) ==
  IF text = <<>> THEN 0
  ELSE Utf8Width(text[1].cp) * text[1].n + Utf8Len(Tail(text))

\* "", "a", U+00E9, U+20AC U+00E9 (0, 1, 2 and 5 bytes).
SmallTexts == {<<>>, <<Run(97, 1)>>, <<Run(233, 1)>>, <<Run(8364, 1), Run(233, 1)>>}

\* 1000 x "a", 1500 x U+00E9, 1400 x U+20AC (1000, 3000 and 4200 bytes).
LongTexts == {<<Run(97, 1000)>>, <<Run(233, 1500)>>, <<Run(8364, 1400)>>}

Speakers == {1, 2}

Segment(speaker, text) == <<speaker, text>>

SegmentsOver(texts) == {Segment(sp, t) : sp \in Speakers, t \in texts}

RECURSIVE ChunkBytes(_)
\* The summed UTF-8 size of the texts of a chunk.
ChunkBytes(chunk) ==
  IF chunk = <<>> THEN 0 ELSE Utf8Len(chunk[1][2]) + ChunkBytes(Tail(chunk))

\* max_bytes of chunk_segments (google_cloud_tts.py 75).
DefaultMaxBytes == 4000

\* A test that forgets that the current chunk may be empty.
StartsNewChunkAlways(current_size, segment_size, ceiling, current_chunk) ==
  current_size + segment_size > ceiling

\* `current_size + segment_size > max_bytes and current_chunk` (line 94).
StartsNewChunk(current_size, segment_size, ceiling, current_chunk) ==
  current_size + segment_size > ceiling /\ current_chunk # <<>>

RECURSIVE ChunkLoop(_, _, _, _, _)
\* The loop of chunk_segments (90-101) over the segments left, then 103-106.
ChunkLoop(rest, ceiling, done, current_chunk, current_size) ==
  IF rest = <<>>
  THEN IF current_chunk # <<>> THEN Append(done, current_chunk) ELSE done
  ELSE LET segment_size == Utf8Len(rest[1][2])
       IN IF StartsNewChunk(current_size, segment_size, ceiling, current_chunk)
          THEN ChunkLoop(Tail(rest), ceiling, Append(done, current_chunk),
                         <<rest[1]>>, segment_size)
          ELSE ChunkLoop(Tail(rest), ceiling, done,
                         Append(current_chunk, rest[1]), current_size + segment_size)

\* chunk_segments(segments, max_bytes) (google_cloud_tts.py 74-106).
chunk_segments(segs, ceiling) == ChunkLoop(segs, ceiling, <<>>, <<>>, 0)

IdleCloud ==
  /\ c_pc = "idle"
  /\ segments = <<>>
  /\ max_bytes = DefaultMaxBytes
  /\ chunks = <<>>
  /\ chunk_idx = 0
  /\ audio_chunks = <<>>
  /\ skipped_chunks = <<>>
  /\ synth_calls = 0
  /\ sanitize_calls = 0
  /\ last_request = <<>>
  /\ last_outcome = "none"
  /\ combined = <<>>
  /\ warned = <<>>

loopVars == <<chunk_idx, audio_chunks, skipped_chunks, synth_calls, sanitize_calls,
              last_request, last_outcome>>

\* chunk_segments is given any utterances and any ceiling.
InitChunk ==
  /\ c_pc = "input"
  /\ segments \in SeqsUpTo(SegmentsOver(SmallTexts), MaxSegments)
  /\ max_bytes \in 0..MaxCeiling
  /\ chunks = <<>>
  /\ chunk_idx = 0
  /\ audio_chunks = <<>>
  /\ skipped_chunks = <<>>
  /\ synth_calls = 0
  /\ sanitize_calls = 0
  /\ last_request = <<>>
  /\ last_outcome = "none"
  /\ combined = <<>>
  /\ warned = <<>>

\* The call of chunk_segments.
ChunkSegments ==
  /\ UNCHANGED notCloud
  /\ c_pc = "input"
  /\ chunks' = chunk_segments(segments, max_bytes)
  /\ c_pc' = "chunked"
  /\ UNCHANGED <<combined, warned>>
  /\ UNCHANGED <<segments, max_bytes>>
  /\ UNCHANGED loopVars

(***************************************************************************)
(* generate_audio_google_cloud: the segments are those parse_transcript    *)
(* returned; one action per outcome of a synthesize_chunk call.            *)
(***************************************************************************)
InitCloud ==
  /\ c_pc = "start"
  /\ segments \in SeqsUpTo(SegmentsOver(LongTexts), MaxSegments)
  /\ max_bytes = DefaultMaxBytes
  /\ chunks = <<>>
  /\ chunk_idx = 0
  /\ audio_chunks = <<>>
  /\ skipped_chunks = <<>>
  /\ synth_calls = 0
  /\ sanitize_calls = 0
  /\ last_request = <<>>
  /\ last_outcome = "none"
  /\ combined = <<>>
  /\ warned = <<>>

\* Where the loop goes once a chunk is finished (208, 245).
AfterChunk(done, total) == IF done = total THEN "finish" ELSE "attempt"

\* No speaker segments: ValueError (132-134).
NoSegments ==
  /\ UNCHANGED notCloud
  /\ c_pc = "start"
  /\ segments = <<>>
  /\ c_pc' = "raised"
  /\ UNCHANGED <<combined, warned>>
  /\ UNCHANGED <<segments, max_bytes, chunks>>
  /\ UNCHANGED loopVars

\* chunks = chunk_segments(segments) (137).
StartChunkLoop ==
  /\ UNCHANGED notCloud
  /\ c_pc = "start"
  /\ segments # <<>>
  /\ chunks' = chunk_segments(segments, DefaultMaxBytes)
  /\ c_pc' = AfterChunk(0, Len(chunk_segments(segments, DefaultMaxBytes)))
  /\ UNCHANGED <<combined, warned>>
  /\ UNCHANGED <<segments, max_bytes>>
  /\ UNCHANGED loopVars

\* What the language model's rewrite of a chunk parses to (57-62): the
\* speaker labels with any texts, here a short chunk and one of two long
\* utterances.
Rewrites ==
  { <<Segment(1, <<Run(97, 1000)>>)>>,
    <<Segment(1, <<Run(233, 1500)>>), Segment(2, <<Run(233, 1500)>>)>> }

\* sanitize_chunk_content(chunk) (22-71): the parsed rewrite, or the chunk
\* itself when nothing was parsed or the call failed.
SanitizeResults(chunk) == {chunk} \cup Rewrites

\* What synthesize_chunk can return (197): audio that decodes, no bytes, or
\* bytes that AudioSegment.from_file rejects (238-240).
AudioContents == {"wav", "empty", "bad_wav"}

\* The first synthesize_chunk call returns (213), then 237-243: audio is
\* decoded and appended, no bytes are passed over, and a decoding error
\* leaves the function.
FirstAttemptReturns ==
  /\ UNCHANGED notCloud
  /\ c_pc = "attempt"
  /\ \E content \in AudioContents :
       /\ audio_chunks' = IF content = "wav" THEN Append(audio_chunks, chunk_idx + 1)
                          ELSE audio_chunks
       /\ last_outcome' = content
       /\ chunk_idx' = IF content = "bad_wav" THEN chunk_idx ELSE chunk_idx + 1
       /\ c_pc' = IF content = "bad_wav" THEN "raised"
                  ELSE AfterChunk(chunk_idx + 1, Len(chunks))
  /\ last_request' = chunks[chunk_idx + 1]
  /\ synth_calls' = 1
  /\ sanitize_calls' = 0
  /\ UNCHANGED <<combined, warned>>
  /\ UNCHANGED <<segments, max_bytes, chunks, skipped_chunks>>

\* The test of the moderation handler (214-215).
IsModeration(exc) ==
  exc.type = "InvalidArgument" /\ (exc.sensitive \/ exc.has400)

SynthesisExceptions ==
  [type : {"InvalidArgument", "Other"}, sensitive : BOOLEAN, has400 : BOOLEAN]

\* The first synthesize_chunk call raises (213-235): a moderation rejection
\* leads to the retry, anything else leaves the function.
FirstAttemptRaises ==
  /\ UNCHANGED notCloud
  /\ c_pc = "attempt"
  /\ \E exc \in SynthesisExceptions :
       c_pc' = IF IsModeration(exc) THEN "retry" ELSE "raised"
  /\ last_request' = chunks[chunk_idx + 1]
  /\ synth_calls' = 1
  /\ sanitize_calls' = 0
  /\ UNCHANGED <<combined, warned>>
  /\ UNCHANGED <<segments, max_bytes, chunks, chunk_idx, audio_chunks, skipped_chunks,
                 last_outcome>>

\* sanitize_chunk_content, then the second synthesize_chunk call returns
\* (223-227), then 237-243.
RetryReturns ==
  /\ UNCHANGED notCloud
  /\ c_pc = "retry"
  /\ \E sanitized \in SanitizeResults(chunks[chunk_idx + 1]), content \in AudioContents :
       /\ last_request' = sanitized
       /\ audio_chunks' = IF content = "wav" THEN Append(audio_chunks, chunk_idx + 1)
                          ELSE audio_chunks
       /\ last_outcome' = "retry_" \o content
       /\ chunk_idx' = IF content = "bad_wav" THEN chunk_idx ELSE chunk_idx + 1
       /\ c_pc' = IF content = "bad_wav" THEN "raised"
                  ELSE AfterChunk(chunk_idx + 1, Len(chunks))
  /\ sanitize_calls' = sanitize_calls + 1
  /\ synth_calls' = synth_calls + 1
  /\ UNCHANGED <<combined, warned>>
  /\ UNCHANGED <<segments, max_bytes, chunks, skipped_chunks>>

\* A retry whose failure leaves the function.
RetryRaisesAborts ==
  /\ UNCHANGED notCloud
  /\ c_pc = "retry"
  /\ \E sanitized \in SanitizeResults(chunks[chunk_idx + 1]) :
       last_request' = sanitized
  /\ sanitize_calls' = sanitize_calls + 1
  /\ synth_calls' = synth_calls + 1
  /\ last_outcome' = "retry_failed"
  /\ c_pc' = "raised"
  /\ UNCHANGED <<combined, warned>>
  /\ UNCHANGED <<segments, max_bytes, chunks, chunk_idx, audio_chunks, skipped_chunks>>

\* sanitize_chunk_content, then the second synthesize_chunk call raises: the
\* chunk is skipped (228-233).
RetryRaises ==
  /\ UNCHANGED notCloud
  /\ c_pc = "retry"
  /\ \E sanitized \in SanitizeResults(chunks[chunk_idx + 1]) :
       last_request' = sanitized
  /\ sanitize_calls' = sanitize_calls + 1
  /\ synth_calls' = synth_calls + 1
  /\ skipped_chunks' = Append(skipped_chunks, chunk_idx + 1)
  /\ last_outcome' = "retry_failed"
  /\ chunk_idx' = chunk_idx + 1
  /\ c_pc' = AfterChunk(chunk_idx + 1, Len(chunks))
  /\ UNCHANGED <<combined, warned>>
  /\ UNCHANGED <<segments, max_bytes, chunks, audio_chunks>>

\* A unit of assembled audio: the audio synthesized for a chunk or an
\* utterance, or the silence whose length get_pause_duration computed from a
\* text.
AudioUnit(k) == [kind |-> "audio", of |-> k]

SilenceUnit(text) == [kind |-> "silence", after |-> text]

\* combined = audio_chunks[0]; combined += chunk for the others (258-260).
Concatenate(audio) == [k \in 1..Len(audio) |-> AudioUnit(audio[k])]

\* After the loop (245-268): the warning when chunks were skipped; no audio
\* at all is a ValueError, else the audio is concatenated and exported.
FinishAudio ==
  /\ UNCHANGED notCloud
  /\ c_pc = "finish"
  /\ warned' = skipped_chunks
  /\ c_pc' = IF audio_chunks = <<>> THEN "raised" ELSE "returned"
  /\ combined' = Concatenate(audio_chunks)
  /\ UNCHANGED <<segments, max_bytes, chunks>>
  /\ UNCHANGED loopVars

(***************************************************************************)
(* Claims about chunk_segments (SpecChunk) and the chunk loop (SpecCloud). *)
(***************************************************************************)
RECURSIVE Flatten(_)
\* The chunks put end to end.
Flatten(cs) == IF cs = <<>> THEN <<>> ELSE cs[1] \o Flatten(Tail(cs))

C10_OneRetryThenSkip ==
  /\ [](/\ sanitize_calls <= 1
        /\ synth_calls <= 2
        /\ c_pc = "retry" => (synth_calls = 1 /\ sanitize_calls = 0))
  /\ [][c_pc = "retry" =>
          /\ c_pc' # "retry"
          /\ sanitize_calls' = 1
          /\ synth_calls' = 2
          /\ last_outcome' = "retry_failed" =>
                /\ skipped_chunks' = Append(skipped_chunks, chunk_idx + 1)
                /\ audio_chunks' = audio_chunks
                /\ chunk_idx' = chunk_idx + 1
                /\ c_pc' = IF chunk_idx + 1 < Len(chunks) THEN "attempt" ELSE "finish"]_vars

\* The retry of the first of two chunks has failed: it is skipped and the
\* loop is at the second chunk.
C10_Witness ==
  /\ c_pc = "attempt"
  /\ Len(chunks) = 2
  /\ chunk_idx = 1
  /\ last_outcome = "retry_failed"
  /\ skipped_chunks = <<1>>
  /\ synth_calls = 2
  /\ sanitize_calls = 1

\* C11: when generate_audio_google_cloud has ended after chunking, then if no
\* chunk gave audio it has failed and written no file, and if at least one
\* chunk gave audio it has returned, the file holds the audio of the
\* successful chunks in their original order, and the warning lists the
\* skipped chunks.
C11_AllFailOrAssemble ==
  (c_pc \in {"returned", "raised"} /\ chunks # <<>>) =>
    IF audio_chunks = <<>>
    THEN c_pc = "raised" /\ combined = <<>>
    ELSE /\ c_pc = "returned"
         /\ combined = Concatenate(audio_chunks)
         /\ \A j, k \in 1..Len(audio_chunks) : j < k => audio_chunks[j] < audio_chunks[k]
         /\ warned = skipped_chunks

\* The text a chunk ends with: that of its last utterance.
LastText(chunk) == chunk[Len(chunk)][2]

\* C14: the audio generate_audio_google_cloud returns holds, between every
\* two consecutive synthesized chunks, a silence computed by the pause
\* heuristic from the text of the chunk before the gap.
C14_SilenceBetweenChunks ==
  c_pc = "returned" =>
    /\ Len(combined) = 2 * Len(audio_chunks) - 1
    /\ \A k \in 1..Len(audio_chunks) : combined[2 * k - 1] = AudioUnit(audio_chunks[k])
    /\ \A k \in 1..(Len(audio_chunks) - 1) :
         combined[2 * k] = SilenceUnit(LastText(chunks[audio_chunks[k]]))

\* C28: when the chunk loop has completed, every chunk is accounted for: its
\* audio is in the assembled list or its index is in the skipped list, never
\* neither and never both, so the assembled units and the skipped chunks
\* together number as many as the chunks.
C28_EveryChunkAccounted ==
  c_pc = "finish" =>
    /\ \A k \in 1..Len(chunks) :
         (\E j \in 1..Len(audio_chunks) : audio_chunks[j] = k)
           # (\E j \in 1..Len(skipped_chunks) : skipped_chunks[j] = k)
    /\ Len(audio_chunks) + Len(skipped_chunks) = Len(chunks)

\* C29: every synthesis request, the retry that carries the sanitized rewrite
\* of a chunk included, has a total UTF-8 text size of at most 4000 bytes
\* unless it consists of a single utterance.
C29_RequestsWithinCeiling ==
  last_request # <<>> =>
    (ChunkBytes(last_request) <= DefaultMaxBytes \/ Len(last_request) = 1)

(***************************************************************************)
(* parse_transcript (macos_tts.py 15-30).  A transcript is a sequence of   *)
(* tokens: an opening tag <PersonD>, a closing tag </PersonD>, or a piece  *)
(* of text without tags, either a word or white space.                     *)
(***************************************************************************)
OpenTag(digit) == [kind |-> "open", digit |-> digit]

CloseTag(digit) == [kind |-> "close", digit |-> digit]

Word == [kind |-> "text", blank |-> FALSE]

Blank == [kind |-> "text", blank |-> TRUE]

\* The digits in the tags of a transcript: \d (24) accepts any digit, of
\* which 1 and 2 are the speakers the backends know.
TagDigits == {1, 2, 3}

Tokens == {OpenTag(dg) : dg \in TagDigits} \cup {CloseTag(dg) : dg \in TagDigits}
            \cup {Word, Blank}

IsBlank(token) == token.kind = "text" /\ token.blank

RECURSIVE LStrip(_)
LStrip(raw) ==
  IF raw # <<>> /\ IsBlank(raw[1]) THEN LStrip(Tail(raw)) ELSE raw

RECURSIVE RStrip(_)
RStrip(raw) ==
  IF raw # <<>> /\ IsBlank(raw[Len(raw)])
  THEN RStrip(SubSeq(raw, 1, Len(raw) - 1)) ELSE raw

\* str.strip() (27): white space removed at both ends.
Strip(raw) == RStrip(LStrip(raw))

RECURSIVE FindClose(_, _, _)
\* Where the lazy (.*?) stops: the first </PersonD> at or after position j,
\* or 0 when there is none.
FindClose(ts, digit, j) ==
  IF j > Len(ts) THEN 0
  ELSE IF ts[j] = CloseTag(digit) THEN j
  ELSE FindClose(ts, digit, j + 1)

RECURSIVE FindIter(_, _)
\* re.finditer of <Person(\d)>(.*?)</Person\1> with DOTALL (24-25): the
\* leftmost matches, none overlapping, as <<group 1, group 2>>.
FindIter(ts, pos) ==
  IF pos > Len(ts) THEN <<>>
  ELSE IF ts[pos].kind = "open" /\ FindClose(ts, ts[pos].digit, pos + 1) # 0
       THEN LET j == FindClose(ts, ts[pos].digit, pos + 1)
            IN <<<<ts[pos].digit, SubSeq(ts, pos + 1, j - 1)>>>> \o FindIter(ts, j + 1)
       ELSE FindIter(ts, pos + 1)

RECURSIVE KeepNonEmpty(_)
\* text = match.group(2).strip(); if text: segments.append (26-29).
KeepNonEmpty(matches) ==
  IF matches = <<>> THEN <<>>
  ELSE LET text == Strip(matches[1][2])
       IN (IF text # <<>> THEN <<<<matches[1][1], text>>>> ELSE <<>>)
            \o KeepNonEmpty(Tail(matches))

\* parse_transcript(transcript) (15-30).
parse_transcript(ts) == KeepNonEmpty(FindIter(ts, 1))

IdleSpeech ==
  /\ s_pc = "idle"
  /\ transcript = <<>>
  /\ tts_segments = <<>>
  /\ backend = "none"
  /\ audio_segments = <<>>
  /\ tts_combined = <<>>
  /\ prev_text = <<>>
  /\ pause_ms = 0

\* parse_transcript is given any transcript.
InitParse ==
  /\ s_pc = "transcript"
  /\ transcript \in SeqsUpTo(Tokens, MaxTokens)
  /\ tts_segments = <<>>
  /\ backend = "none"
  /\ audio_segments = <<>>
  /\ tts_combined = <<>>
  /\ prev_text = <<>>
  /\ pause_ms = 0

\* The call of parse_transcript.
ParseTranscript ==
  /\ UNCHANGED notSpeech
  /\ s_pc = "transcript"
  /\ tts_segments' = parse_transcript(transcript)
  /\ s_pc' = "parsed"
  /\ UNCHANGED <<transcript, backend, audio_segments, tts_combined, prev_text, pause_ms>>

(***************************************************************************)
(* Claims about parse_transcript (SpecParse).                              *)
(***************************************************************************)
IsText(raw) == \A k \in 1..Len(raw) : raw[k].kind = "text"

RECURSIVE WellFormedTurns(_, _)
\* The well-formed turns of a transcript from position pos on, in source
\* order, as <<speaker, stripped text>>: an opening tag, text without tags
\* that is not empty after stripping, and the closing tag of the same speaker.
\* Tags that are part of no such turn are unmatched.
WellFormedTurns(ts, pos) ==
  IF pos > Len(ts) THEN <<>>
  ELSE LET j == IF ts[pos].kind = "open" THEN FindClose(ts, ts[pos].digit, pos + 1) ELSE 0
       IN IF j # 0 /\ IsText(SubSeq(ts, pos + 1, j - 1))
          THEN (IF Strip(SubSeq(ts, pos + 1, j - 1)) # <<>>
                THEN <<<<ts[pos].digit, Strip(SubSeq(ts, pos + 1, j - 1))>>>> ELSE <<>>)
                 \o WellFormedTurns(ts, j + 1)
          ELSE WellFormedTurns(ts, pos + 1)

\* C12: parse_transcript returns exactly the well-formed turns with non-empty
\* text, in source order: N pairs for N such turns whatever the speakers'
\* interleaving, no pair for a turn whose text is empty after stripping, no
\* pair and no error for unmatched tags, the empty list without tags.
C12_ParsesWellFormedTurns ==
  s_pc = "parsed" => tts_segments = WellFormedTurns(transcript, 1)

\* C27: every utterance parse_transcript returns has speaker index 1 or 2,
\* whatever the transcript, so that the voice lookup of every backend
\* (voices[speaker], speaker_aliases[speaker]) is defined for it.
C27_SpeakerIsOneOrTwo ==
  s_pc = "parsed" =>
    \A k \in 1..Len(tts_segments) : tts_segments[k][1] \in {1, 2}

(***************************************************************************)
(* get_pause_duration (macos_tts.py 50-72).  A text is a sequence of       *)
(* characters.                                                             *)
(***************************************************************************)
PauseAlphabet == {"a", "?", "!", ".", " ", "'"}

WhiteSpace == {" "}

\* The argument of rstrip (59).
QuoteChars == {"\"", "'"}

RECURSIVE LStripChars(_, _)
LStripChars(text, chars) ==
  IF text # <<>> /\ text[1] \in chars THEN LStripChars(Tail(text), chars) ELSE text

RECURSIVE RStripChars(_, _)
RStripChars(text, chars) ==
  IF text # <<>> /\ text[Len(text)] \in chars
  THEN RStripChars(SubSeq(text, 1, Len(text) - 1), chars) ELSE text

\* text.strip().rstrip('"\'') (59).
StripForPause(text) ==
  RStripChars(RStripChars(LStripChars(text, WhiteSpace), WhiteSpace), QuoteChars)

\* str.endswith.
EndsWith(text, suffix) ==
  /\ Len(text) >= Len(suffix)
  /\ SubSeq(text, Len(text) - Len(suffix) + 1, Len(text)) = suffix

\* A draw that never gives the upper end.
RandIntBelow(a, b) == a..(b - 1)

\* random.randint(a, b): any integer from a to b, both included.
RandInt(a, b) == a..b

\* get_pause_duration(text) (50-72): the values it can return.
get_pause_duration(text) ==
  LET stripped == StripForPause(text)
  IN IF EndsWith(stripped, <<"?">>) THEN RandInt(500, 800)
     ELSE IF EndsWith(stripped, <<".", ".", ".">>) THEN RandInt(400, 600)
     ELSE IF EndsWith(stripped, <<"!">>) THEN RandInt(200, 350)
     ELSE RandInt(300, 500)

\* get_pause_duration is given any text.
InitPause ==
  /\ s_pc = "text"
  /\ prev_text \in SeqsUpTo(PauseAlphabet, MaxText)
  /\ transcript = <<>>
  /\ tts_segments = <<>>
  /\ backend = "none"
  /\ audio_segments = <<>>
  /\ tts_combined = <<>>
  /\ pause_ms = 0

\* The call of get_pause_duration.
GetPauseDuration ==
  /\ UNCHANGED notSpeech
  /\ s_pc = "text"
  /\ pause_ms' \in get_pause_duration(prev_text)
  /\ s_pc' = "paused"
  /\ UNCHANGED <<transcript, tts_segments, backend, audio_segments, tts_combined, prev_text>>

(***************************************************************************)
(* Claims about get_pause_duration (SpecPause).                            *)
(***************************************************************************)
\* The range the pause of a text lies in, by the ending of the text once
\* surrounding white space, then trailing quotes, are removed.
PauseRange(text) ==
  LET ending == StripForPause(text)
      n == Len(ending)
  IN IF n >= 1 /\ ending[n] = "?" THEN 500..800
     ELSE IF n >= 3 /\ ending[n] = "." /\ ending[n - 1] = "." /\ ending[n - 2] = "."
          THEN 400..600
     ELSE IF n >= 1 /\ ending[n] = "!" THEN 200..350
     ELSE 300..500

\* C15: the pause returned for a text lies in [500,800] if the stripped text
\* ends in "?", else in [400,600] if it ends in "...", else in [200,350] if it
\* ends in "!", else in [300,500], and every value of the range can be
\* returned.
C15_PauseInRange ==
  s_pc = "paused" =>
    /\ pause_ms \in PauseRange(prev_text)
    /\ get_pause_duration(prev_text) = PauseRange(prev_text)

\* The text  ...'  got the longest pause of its range.
C15_Witness ==
  /\ s_pc = "paused"
  /\ prev_text = <<".", ".", ".", "'">>
  /\ pause_ms = 600

(***************************************************************************)
(* The per-utterance backends: generate_audio_macos (macos_tts.py 89-168)  *)
(* and generate_audio_chatterbox (chatterbox_tts.py 27-109).  The segments *)
(* are those parse_transcript returned: stripped, non-empty texts.         *)
(***************************************************************************)
Backends == {"macos", "chatterbox"}

\* "a!" and "a".
SpeechTexts == {<<"a", "!">>, <<"a">>}

InitSpeech ==
  /\ s_pc = "synthesize"
  /\ backend \in Backends
  /\ tts_segments \in SeqsUpTo(SegmentsOver(SpeechTexts), MaxUtterances)
  /\ transcript = <<>>
  /\ audio_segments = <<>>
  /\ tts_combined = <<>>
  /\ prev_text = <<>>
  /\ pause_ms = 0

\* The voice is not installed (macos_tts.py 109-110) or a reference recording
\* is missing (chatterbox_tts.py 47-50).
VoiceUnavailable ==
  /\ UNCHANGED notSpeech
  /\ s_pc = "synthesize"
  /\ audio_segments = <<>>
  /\ s_pc' = "raised"
  /\ UNCHANGED <<transcript, tts_segments, backend, audio_segments, tts_combined,
                 prev_text, pause_ms>>

\* No speaker segments: ValueError (macos_tts.py 113-114, chatterbox_tts.py
\* 53-54).
NoUtterances ==
  /\ UNCHANGED notSpeech
  /\ s_pc = "synthesize"
  /\ tts_segments = <<>>
  /\ s_pc' = "raised"
  /\ UNCHANGED <<transcript, tts_segments, backend, audio_segments, tts_combined,
                 prev_text, pause_ms>>

\* One turn of the synthesis loop (macos_tts.py 124-147, chatterbox_tts.py
\* 79-90): the audio of the next utterance is appended.
SynthesizeUtterance ==
  /\ UNCHANGED notSpeech
  /\ s_pc = "synthesize"
  /\ Len(audio_segments) < Len(tts_segments)
  /\ audio_segments' = Append(audio_segments, Len(audio_segments) + 1)
  /\ UNCHANGED <<s_pc, transcript, tts_segments, backend, tts_combined, prev_text, pause_ms>>

\* say returns nonzero (macos_tts.py 141-145) or the model raises
\* (chatterbox_tts.py 84-90): the function is left.
UtteranceFails ==
  /\ UNCHANGED notSpeech
  /\ s_pc = "synthesize"
  /\ Len(audio_segments) < Len(tts_segments)
  /\ s_pc' = "raised"
  /\ UNCHANGED <<transcript, tts_segments, backend, audio_segments, tts_combined,
                 prev_text, pause_ms>>

\* combined = audio_segments[0] (macos_tts.py 154, chatterbox_tts.py 96).
StartCombined ==
  /\ UNCHANGED notSpeech
  /\ s_pc = "synthesize"
  /\ tts_segments # <<>>
  /\ Len(audio_segments) = Len(tts_segments)
  /\ tts_combined' = <<AudioUnit(audio_segments[1])>>
  /\ s_pc' = "assemble"
  /\ UNCHANGED <<transcript, tts_segments, backend, audio_segments, prev_text, pause_ms>>

\* The text of the utterance after the gap.
TextAfterGap(segs, i) == segs[i + 2][2]

\* prev_text = segments[i][1], i counting from 0 (macos_tts.py 157,
\* chatterbox_tts.py 98).
TextBeforeGap(segs, i) == segs[i + 1][2]

\* One turn of the loop over audio_segments[1:] (macos_tts.py 155-160,
\* chatterbox_tts.py 97-101), i being the number of turns done.
AppendWithPause ==
  /\ UNCHANGED notSpeech
  /\ s_pc = "assemble"
  /\ LET i == (Len(tts_combined) - 1) \div 2
     IN /\ i + 1 < Len(audio_segments)
        /\ prev_text' = TextBeforeGap(tts_segments, i)
        /\ pause_ms' \in get_pause_duration(TextBeforeGap(tts_segments, i))
        /\ tts_combined' = tts_combined \o
             <<SilenceUnit(TextBeforeGap(tts_segments, i)), AudioUnit(audio_segments[i + 2])>>
  /\ UNCHANGED <<s_pc, transcript, tts_segments, backend, audio_segments>>

\* combined.export and return (macos_tts.py 162-168, chatterbox_tts.py
\* 103-109).
ExportCombined ==
  /\ UNCHANGED notSpeech
  /\ s_pc = "assemble"
  /\ (Len(tts_combined) - 1) \div 2 + 1 = Len(audio_segments)
  /\ s_pc' = "returned"
  /\ UNCHANGED <<transcript, tts_segments, backend, audio_segments, tts_combined,
                 prev_text, pause_ms>>

(***************************************************************************)
(* Claims about the per-utterance backends (SpecSpeech).                   *)
(***************************************************************************)
\* C13: the audio a per-utterance backend returns holds the N utterances in
\* transcript order with exactly N-1 silences, the silence after utterance i
\* being computed by get_pause_duration from the text of utterance i.
C13_PauseFromPrecedingText ==
  /\ [](s_pc = "returned" =>
          /\ Len(tts_combined) = 2 * Len(tts_segments) - 1
          /\ \A k \in 1..Len(tts_segments) : tts_combined[2 * k - 1] = AudioUnit(k)
          /\ \A k \in 1..(Len(tts_segments) - 1) :
               tts_combined[2 * k] = SilenceUnit(tts_segments[k][2]))
  /\ [][tts_combined # <<>> /\ tts_combined' # tts_combined =>
          LET k == (Len(tts_combined) + 1) \div 2
          IN /\ prev_text' = tts_segments[k][2]
             /\ pause_ms' \in get_pause_duration(tts_segments[k][2])
             /\ tts_combined' = tts_combined \o
                  <<SilenceUnit(tts_segments[k][2]), AudioUnit(k + 1)>>]_vars

\* Two utterances "a!" and "a" of different speakers were assembled: the
\* silence between them was computed from "a!" and lasted 350 ms.
C13_Witness ==
  /\ s_pc = "returned"
  /\ Len(tts_segments) = 2
  /\ tts_segments[1] = Segment(2, <<"a", "!">>)
  /\ tts_segments[2] = Segment(1, <<"a">>)
  /\ tts_combined = <<AudioUnit(1), SilenceUnit(<<"a", "!">>), AudioUnit(2)>>
  /\ prev_text = <<"a", "!">>
  /\ pause_ms = 350

(***************************************************************************)
(* adaptive_delay (json_fetcher.py 16-37).  Header values and delays are   *)
(* in thousandths.                                                         *)
(***************************************************************************)
\* X-Ratelimit-Remaining: absent, not a number, or a number such as "4.9".
RemainingHeaders ==
  {NoHeader, BadHeader} \cup
    {NumHeader(ms) : ms \in {-500, 0, 4000, 4900, 5000, 19000, 19900, 20000, 99000}}

\* base_delay: 1.0 between subreddits (cli/main.py 139), 6.0 before a comment
\* fetch and by default (json_fetcher.py 16, 277).
BaseDelays == {1000, 6000}

\* float() rejects the text of the header: ValueError.
FloatRaises(h) == h.kind = "malformed"

\* float(response.headers.get(name, default)) for a header float() accepts.
HeaderFloat(h, default_ms) == IF h.kind = "absent" THEN default_ms ELSE h.ms

\* A test at the old limit of 10.
AlmostOutBelowTen(remaining) == remaining < 10

\* remaining < 5 (30).
AlmostOut(remaining) == remaining < 5

\* remaining < 20 (33).
GettingLow(remaining) == remaining < 20

Returns(ms) == [outcome |-> "returns", delay |-> ms]

Raises == [outcome |-> "raises", delay |-> -1]

\* adaptive_delay(response, base_delay) (16-37): both headers are read first
\* (27-28), then the remaining quota decides.
adaptive_delay(rem_h, reset_h, base) ==
  IF FloatRaises(rem_h) \/ FloatRaises(reset_h) THEN Raises
  ELSE LET remaining == IntOfMs(HeaderFloat(rem_h, 100000))
           reset_seconds == HeaderFloat(reset_h, 60000)
       IN IF AlmostOut(remaining) THEN Returns(reset_seconds)
          ELSE IF GettingLow(remaining) THEN Returns(base * 2)
          ELSE Returns(base)

IdleDelay ==
  /\ d_pc = "idle"
  /\ remaining_header = NoHeader
  /\ reset_header = NoHeader
  /\ base_delay = 6000
  /\ delay = -1

\* adaptive_delay is given any response.
InitDelay ==
  /\ d_pc = "called"
  /\ remaining_header \in RemainingHeaders
  /\ reset_header \in ResetHeaders
  /\ base_delay \in BaseDelays
  /\ delay = -1

\* adaptive_delay returns.
AdaptiveDelayReturns ==
  /\ UNCHANGED notDelay
  /\ d_pc = "called"
  /\ adaptive_delay(remaining_header, reset_header, base_delay).outcome = "returns"
  /\ delay' = adaptive_delay(remaining_header, reset_header, base_delay).delay
  /\ d_pc' = "returned"
  /\ UNCHANGED <<remaining_header, reset_header, base_delay>>

\* float() rejects a header: ValueError (27-28).
AdaptiveDelayRaises ==
  /\ UNCHANGED notDelay
  /\ d_pc = "called"
  /\ adaptive_delay(remaining_header, reset_header, base_delay).outcome = "raises"
  /\ d_pc' = "raised"
  /\ UNCHANGED <<remaining_header, reset_header, base_delay, delay>>

(***************************************************************************)
(* Claims about adaptive_delay (SpecDelay).                                *)
(***************************************************************************)
\* The remaining quota the response states, in thousandths: 100 when the
\* header is absent.
RemainingQuota == IF remaining_header.kind = "absent" THEN 100000 ELSE remaining_header.ms

\* C19: what adaptive_delay returns is the value of the reset header (60
\* seconds standing for an absent one) when the remaining quota is below 5,
\* twice the base delay when it is at least 5 and below 20, and the base delay
\* otherwise, in particular when the headers are absent.
C19_DelayByQuota ==
  d_pc = "returned" =>
    /\ RemainingQuota < 5000 =>
          delay = (IF reset_header.kind = "absent" THEN 60000 ELSE reset_header.ms)
    /\ (RemainingQuota >= 5000 /\ RemainingQuota < 20000) => delay = 2 * base_delay
    /\ RemainingQuota >= 20000 => delay = base_delay
    /\ (remaining_header.kind = "absent" /\ reset_header.kind = "absent") =>
          delay = base_delay

\* A remaining quota of 4.9 with a reset header of 5.5: the delay is 5.5 s.
C19_Witness ==
  /\ d_pc = "returned"
  /\ remaining_header = NumHeader(4900)
  /\ reset_header = NumHeader(5500)
  /\ base_delay = 1000
  /\ delay = 5500

(***************************************************************************)
(* The content analyzer (analyzer.py).  analyze_post_value reads           *)
(* settings.anthropic_api_key (line 31) before its try block (53-93); the  *)
(* Settings class (settings.py 8-43) declares no such field and ignores    *)
(* extra input, so the read raises AttributeError and the request and the  *)
(* parsing of the reply (53-93) are never reached.                         *)
(***************************************************************************)
\* The fields of Settings (settings.py 17-43).
SettingsFields ==
  {"database_url", "user_agent", "gemini_api_key", "elevenlabs_api_key",
   "tts_backend", "elevenlabs_voice_1", "elevenlabs_voice_2",
   "macos_voice_1", "macos_voice_2", "chatterbox_voice_1", "chatterbox_voice_2"}

\* settings.<name> on the Settings object: the value of a declared field,
\* AttributeError for any other name (extra="ignore", settings.py 14).
ReadSetting(name) == IF name \in SettingsFields THEN "ok" ELSE "AttributeError"

\* The thresholds given as min_score (default 5, analyzer.py 96).
MinScores == {0, 5, 10}

IdleAnalyze ==
  /\ a_pc = "idle"
  /\ a_posts = <<>>
  /\ min_score = 5
  /\ a_analyzed = 0
  /\ analysis = <<>>
  /\ a_result = <<>>
  /\ a_error = "none"

\* filter_and_score_posts(posts, min_score) is called (96).
InitAnalyze ==
  /\ a_pc = "start"
  /\ a_posts \in SeqsUpTo(GenPosts, MaxAnalyzed)
  /\ min_score \in MinScores
  /\ a_analyzed = 0
  /\ analysis = <<>>
  /\ a_result = <<>>
  /\ a_error = "none"

\* No post to analyze: the loop (109-112) does not run and [] is returned.
FilterNothing ==
  /\ a_pc = "start"
  /\ a_posts = <<>>
  /\ a_pc' = "returned"
  /\ a_result' = <<>>
  /\ UNCHANGED <<a_posts, min_score, a_analyzed, analysis, a_error>>
  /\ UNCHANGED notAnalyze

\* analyze_post_value(posts[0]) (110): line 31 reads the API key from the
\* settings, outside the try block; the exception leaves analyze_post_value
\* and filter_and_score_posts.
AnalyzeRaises ==
  /\ a_pc = "start"
  /\ a_posts # <<>>
  /\ ReadSetting("anthropic_api_key") # "ok"
  /\ a_analyzed' = a_analyzed + 1
  /\ a_error' = ReadSetting("anthropic_api_key")
  /\ a_pc' = "raised"
  /\ UNCHANGED <<a_posts, min_score, analysis, a_result>>
  /\ UNCHANGED notAnalyze

(***************************************************************************)
(* Claims about the content analyzer (SpecAnalyze).                        *)
(***************************************************************************)
\* C21: analyze_post_value never propagates an error and always returns an
\* integer score in [0,10]: every call that was begun has returned a dict
\* whose score is between 0 and 10, and no exception has left it.
C21_AnalyzeNeverRaises ==
  a_analyzed > 0 =>
    /\ a_error = "none"
    /\ Len(analysis) = a_analyzed
    /\ \A k \in 1..Len(analysis) : analysis[k].score \in 0..10

(***************************************************************************)
(* The rows of table posts.  A batch is one successful run of              *)
(* fetch_and_save_subreddit_json, an episode one successful run of         *)
(* generate_episode; a run that fails is rolled back and changes nothing.  *)
(* The content of a listing entry stands for the fields Reddit reports     *)
(* (title, selftext, score, ...), which differ from one fetch to the next. *)
(***************************************************************************)
ListingEntries == [reddit_id : RedditIds, content : {1, 2}]

\* What fetch_comments returns for a post.
CommentLists == {"none", "some"}

NoRows == [id \in {} |-> 0]

\* Post(...) (json_fetcher.py 203-214).
PostRow(entry, comments, now) ==
  [content |-> entry.content, comments |-> comments, fetched_at |-> now]

\* A save that writes the fetched values over the row that exists.
SaveOverwrites(rows, entry, comments, now) ==
  [id \in DOMAIN rows \cup {entry.reddit_id} |->
     IF id = entry.reddit_id THEN PostRow(entry, comments, now) ELSE rows[id]]

\* save_json_post_to_db (json_fetcher.py 183-216): nothing for a reddit_id
\* that has a row, a new row otherwise.
save_json_post_to_db(rows, entry, comments, now) ==
  IF entry.reddit_id \in DOMAIN rows THEN rows
  ELSE [id \in DOMAIN rows \cup {entry.reddit_id} |->
          IF id = entry.reddit_id THEN PostRow(entry, comments, now) ELSE rows[id]]

RECURSIVE SaveLoop(_, _, _, _)
\* The save loop over posts_with_comments (json_fetcher.py 288-294); the
\* entries of posts already stored were filtered out before (258-265), which
\* the test of save_json_post_to_db repeats.
SaveLoop(rows, listing, comments, now) ==
  IF listing = <<>> THEN rows
  ELSE SaveLoop(save_json_post_to_db(rows, listing[1], comments[1], now),
                Tail(listing), Tail(comments), now)

IdlePost ==
  /\ p_pc = "idle"
  /\ table = NoRows
  /\ p_assoc = {}
  /\ p_clock = 0
  /\ p_listing = <<>>

InitPost ==
  /\ p_pc = "ready"
  /\ table = NoRows
  /\ p_assoc = {}
  /\ p_clock = 0
  /\ p_listing = <<>>

\* fetch_and_save_subreddit_json returns (json_fetcher.py 219-299): the rows
\* of the batch are committed.
SaveBatch ==
  /\ UNCHANGED notPost
  /\ p_pc = "ready"
  /\ p_clock < MaxBatches
  /\ \E listing \in SeqsUpTo(ListingEntries, MaxListing) :
       \E comments \in [1..Len(listing) -> CommentLists] :
         /\ table' = SaveLoop(table, listing, comments, p_clock + 1)
         /\ p_listing' = listing
  /\ p_clock' = p_clock + 1
  /\ UNCHANGED <<p_pc, p_assoc>>

\* generate_episode returns (generator.py 310-330): the Episode row is added
\* and each selected post gets a post_episodes row, then the commit.
RecordEpisode ==
  /\ UNCHANGED notPost
  /\ p_pc = "ready"
  /\ \E selected \in SUBSET (DOMAIN table), id \in (1..MaxEpisodes) \ {a[2] : a \in p_assoc} :
       /\ selected # {}
       /\ Cardinality(selected) <= MaxLimit
       /\ p_assoc' = p_assoc \cup {<<post, id>> : post \in selected}
  /\ UNCHANGED <<p_pc, table, p_clock, p_listing>>

(***************************************************************************)
(* Claims about the rows of table posts (SpecPosts).                       *)
(***************************************************************************)
\* C25: a stored post is immutable: no step removes a row of posts or changes
\* a field of it, in particular not the fetch of a listing that holds its
\* reddit_id; a step that writes associations to episodes leaves the posts
\* table as it is; rows are added only by the fetch path.
C25_StoredPostImmutable ==
  /\ [][\A id \in DOMAIN table : id \in DOMAIN table' /\ table'[id] = table[id]]_vars
  /\ [][p_assoc' # p_assoc => table' = table]_vars
  /\ [][table' # table => (p_clock' = p_clock + 1 /\ p_assoc' = p_assoc)]_vars

\* Post a1 was stored by the first batch with the content of that time, is
\* part of episode 1, and the second batch has fetched a listing that holds
\* a1 with other content.
C25_Witness ==
  /\ p_clock = 2
  /\ "a1" \in DOMAIN table
  /\ table["a1"].content = 1
  /\ table["a1"].fetched_at = 1
  /\ \E k \in 1..Len(p_listing) : p_listing[k] = [reddit_id |-> "a1", content |-> 2]
  /\ <<"a1", 1>> \in p_assoc

(***************************************************************************)
(* Two runs of generate_episode that overlap (two invocations of the       *)
(* command) and share TRANSCRIPT_DIR.  A run is followed from the snapshot *)
(* of the directory to the Episode row; a transcript file is known by the  *)
(* run whose generate_podcast call wrote it and by its st_mtime.  Time     *)
(* passes between any two steps or not at all, so two files can carry the  *)
(* same st_mtime.                                                          *)
(***************************************************************************)
GenRuns == {1, 2}

\* The four names generate_episode accepts as tts_backend (generator.py 147-294).
TtsBackends == {"elevenlabs", "macos", "chatterbox", "google_cloud"}

\* No path: None of _find_new_transcript, "" of transcript_path.
NoFile == [by |-> 0, mtime |-> 0]

TranscriptFile(r, now) == [by |-> r, mtime |-> now]

\* _get_existing_transcripts() (generator.py 41-45).
get_existing_transcripts(dir) == dir

\* A detection that returns any file that is not in the snapshot.
FindAnyNew(dir, existing) ==
  IF dir \ existing = {} THEN {NoFile} ELSE dir \ existing

\* _find_new_transcript(existing) (generator.py 24-38): the values it can
\* return, None without a new file, else a new file of greatest st_mtime
\* (max keeps the first of equal keys in the iteration order of a set).
find_new_transcript(dir, existing) ==
  IF dir \ existing = {} THEN {NoFile}
  ELSE {f \in dir \ existing : \A g \in dir \ existing : g.mtime <= f.mtime}

\* A backend for which no transcript is never an error.
NeverFatal(b) == FALSE

\* `if not transcript_path: raise ValueError(...)` (generator.py 198-200,
\* 235-237, 272-274); the elevenlabs branch has `or ""` and a warning instead
\* (175-178).
MissingTranscriptIsFatal(b) == b # "elevenlabs"

\* The local variables of a run before its first step.
NewRun(b) ==
  [pc |-> "start", tts_backend |-> b, existing_transcripts |-> {},
   found |-> "pending", transcript_path |-> NoFile, audio_of |-> 0,
   warned |-> FALSE, error |-> "none"]

IdleRun ==
  /\ gen_runs = [r \in GenRuns |-> [NewRun("elevenlabs") EXCEPT !.pc = "idle"]]
  /\ t_dir = {}
  /\ t_clock = 0

InitRun ==
  /\ gen_runs \in [GenRuns -> {NewRun(b) : b \in TtsBackends}]
  /\ t_dir = {}
  /\ t_clock = 1

\* Time passes.
TimePasses ==
  /\ UNCHANGED notRun
  /\ \E r \in GenRuns : gen_runs[r].pc \notin {"idle", "done", "failed"}
  /\ t_clock < MaxClock
  /\ t_clock' = t_clock + 1
  /\ UNCHANGED <<gen_runs, t_dir>>

\* existing_transcripts = _get_existing_transcripts() (generator.py 163, 186,
\* 223, 260).
SnapshotTranscripts(r) ==
  /\ UNCHANGED notRun
  /\ gen_runs[r].pc = "start"
  /\ gen_runs' = [gen_runs EXCEPT ![r].pc = "generating",
                                  ![r].existing_transcripts = get_existing_transcripts(t_dir)]
  /\ UNCHANGED <<t_dir, t_clock>>

\* generate_podcast(...) returns (generator.py 165-172, 189-197, 226-234,
\* 263-271): it has written a transcript file or not; with elevenlabs it
\* returns the path of the audio made from its own transcript, or nothing.
GeneratePodcast(r) ==
  /\ UNCHANGED notRun
  /\ gen_runs[r].pc = "generating"
  /\ \E wrote \in BOOLEAN, audio \in BOOLEAN :
       /\ (gen_runs[r].tts_backend # "elevenlabs") => ~audio
       /\ t_dir' = IF wrote THEN t_dir \cup {TranscriptFile(r, t_clock)} ELSE t_dir
       /\ gen_runs' = [gen_runs EXCEPT ![r].pc = "find",
                                       ![r].audio_of = IF audio THEN r ELSE 0]
  /\ UNCHANGED t_clock

\* transcript_path = _find_new_transcript(existing_transcripts) and the tests
\* that follow it (generator.py 174-181, 198-203, 235-240, 272-277); the
\* per-utterance branches read the text of the file they found.
FindTranscript(r) ==
  /\ UNCHANGED notRun
  /\ gen_runs[r].pc = "find"
  /\ \E path \in find_new_transcript(t_dir, gen_runs[r].existing_transcripts) :
       LET run == gen_runs[r]
           missing == path = NoFile
           fatal == \/ missing /\ MissingTranscriptIsFatal(run.tts_backend)
                    \/ run.tts_backend = "elevenlabs" /\ run.audio_of = 0
       IN gen_runs' =
            [gen_runs EXCEPT
               ![r].found = IF missing THEN "none" ELSE "file",
               ![r].transcript_path = path,
               ![r].warned = missing /\ run.tts_backend = "elevenlabs",
               ![r].error = IF fatal THEN "ValueError" ELSE "none",
               ![r].pc = IF fatal THEN "failed"
                         ELSE IF run.tts_backend = "elevenlabs" THEN "record"
                         ELSE "audio"]
  /\ UNCHANGED <<t_dir, t_clock>>

\* generate_audio_macos, generate_audio_chatterbox and
\* generate_audio_google_cloud on the text read (generator.py 211-216,
\* 248-253, 285-291); the google_cloud call reads settings.google_cloud_voice_1,
\* which Settings does not declare.
SynthesizeFromTranscript(r) ==
  /\ UNCHANGED notRun
  /\ gen_runs[r].pc = "audio"
  /\ LET run == gen_runs[r]
         raises == /\ run.tts_backend = "google_cloud"
                   /\ ReadSetting("google_cloud_voice_1") = "AttributeError"
     IN gen_runs' =
          [gen_runs EXCEPT
             ![r].audio_of = IF raises THEN 0 ELSE run.transcript_path.by,
             ![r].error = IF raises THEN "AttributeError" ELSE "none",
             ![r].pc = IF raises THEN "failed" ELSE "record"]
  /\ UNCHANGED <<t_dir, t_clock>>

\* Episode(..., transcript_path=transcript_path, audio_path=audio_path), add,
\* flush, commit (generator.py 310-328).
RecordRun(r) ==
  /\ UNCHANGED notRun
  /\ gen_runs[r].pc = "record"
  /\ gen_runs' = [gen_runs EXCEPT ![r].pc = "done"]
  /\ UNCHANGED <<t_dir, t_clock>>

(***************************************************************************)
(* Claims about overlapping runs of generate_episode (SpecRuns).           *)
(***************************************************************************)
\* C22 as stated: a run that finds no new transcript file logs the warning
\* and still records the Episode with an empty transcript path, whichever
\* backend is selected (for elevenlabs, when generate_podcast returned audio).
C22_AnyBackendRecordsWithoutTranscript ==
  \A r \in GenRuns :
    (gen_runs[r].found = "none" /\
       (gen_runs[r].tts_backend = "elevenlabs" => gen_runs[r].audio_of # 0)) =>
      /\ gen_runs[r].warned
      /\ gen_runs[r].transcript_path = NoFile
      /\ gen_runs[r].pc \in {"record", "done"}

\* C22: a run that finds no new transcript file logs the warning and still
\* records the Episode with an empty transcript path when the backend is
\* elevenlabs and generate_podcast returned an audio path; with macos,
\* chatterbox and google_cloud (and with elevenlabs without audio) it raises
\* ValueError and records no Episode.
C22_OnlyElevenlabsRecordsWithoutTranscript ==
  \A r \in GenRuns :
    gen_runs[r].found = "none" =>
      /\ gen_runs[r].transcript_path = NoFile
      /\ IF gen_runs[r].tts_backend = "elevenlabs"
         THEN /\ gen_runs[r].warned
              /\ IF gen_runs[r].audio_of # 0
                 THEN gen_runs[r].pc \in {"record", "done"} /\ gen_runs[r].error = "none"
                 ELSE gen_runs[r].pc = "failed" /\ gen_runs[r].error = "ValueError"
         ELSE /\ ~gen_runs[r].warned
              /\ gen_runs[r].pc = "failed"
              /\ gen_runs[r].error = "ValueError"

\* An elevenlabs run whose generate_podcast wrote no transcript has warned
\* and recorded its Episode with an empty transcript path, while a macos run
\* in the same situation has failed.
C22_Witness ==
  /\ gen_runs[1].tts_backend = "elevenlabs"
  /\ gen_runs[1].found = "none"
  /\ gen_runs[1].warned
  /\ gen_runs[1].pc = "done"
  /\ gen_runs[1].transcript_path = NoFile
  /\ gen_runs[2].tts_backend = "macos"
  /\ gen_runs[2].found = "none"
  /\ gen_runs[2].pc = "failed"

\* C24: the transcript a run takes for its own is a file that was not in its
\* snapshot and that is at least as new as the file its own generate_podcast
\* wrote, whoever wrote it: it is the file of the other run when that run
\* wrote between the snapshot and the detection with an st_mtime not older
\* than the own file's; the per-utterance backends make the audio from the
\* file taken, and the Episode is recorded with both.
C24_DetectionTakesNewestForeignFile ==
  \A r \in GenRuns :
    LET run == gen_runs[r] IN
      /\ run.found = "file" =>
           /\ run.transcript_path \in t_dir \ run.existing_transcripts
           /\ \A f \in t_dir : f.by = r => f.mtime <= run.transcript_path.mtime
           /\ (\A f \in t_dir \ run.existing_transcripts : f.by = r) =>
                run.transcript_path.by = r
      /\ (run.pc \in {"record", "done"} /\ run.tts_backend # "elevenlabs") =>
           run.audio_of = run.transcript_path.by
      /\ (run.pc \in {"record", "done"} /\ run.tts_backend = "elevenlabs") =>
           run.audio_of = r

\* Run 1 (macos) wrote its own transcript, took the newer one of run 2 for
\* its own, made its audio from it and recorded the Episode with it.
C24_Witness ==
  /\ gen_runs[1].pc = "done"
  /\ gen_runs[1].tts_backend = "macos"
  /\ TranscriptFile(1, 1) \in t_dir
  /\ gen_runs[1].transcript_path = TranscriptFile(2, 2)
  /\ gen_runs[1].audio_of = 2

(***************************************************************************)
(* The specifications.                                                     *)
(***************************************************************************)
NextRetry ==
  \/ ResponseOk
  \/ ResponseErrorStatus
  \/ RequestRaises
  \/ Response429

InitSpecRetry == InitRetry /\ IdleFetch /\ IdleGen /\ IdleCloud /\ IdleSpeech /\ IdleDelay /\ IdleAnalyze /\ IdlePost /\ IdleRun

SpecRetry == InitSpecRetry /\ [][NextRetry]_vars

NextFetch ==
  \/ StartFetch
  \/ WaitBetweenSubreddits
  \/ FetchListing
  \/ FetchListingFails
  \/ WaitBeforeComments
  \/ CommentResponse
  \/ SavePost
  \/ SaveLoopEnds
  \/ CommitBatch
  \/ FetchStops

InitSpecFetch == InitFetch /\ IdleRetry /\ IdleGen /\ IdleCloud /\ IdleSpeech /\ IdleDelay /\ IdleAnalyze /\ IdlePost /\ IdleRun

SpecFetch == InitSpecFetch /\ [][NextFetch]_vars

NextGen ==
  \/ StartGenerate
  \/ SelectPosts
  \/ NoPostsFound
  \/ SynthesisSucceeds
  \/ SynthesisFails
  \/ AddEpisode
  \/ AppendPost
  \/ CommitEpisode
  \/ FinishGenerate
  \/ GenerateStops
  \/ ClearEpisodes

InitSpecGen == InitGen /\ IdleRetry /\ IdleFetch /\ IdleCloud /\ IdleSpeech /\ IdleDelay /\ IdleAnalyze /\ IdlePost /\ IdleRun

SpecGen == InitSpecGen /\ [][NextGen]_vars

NextChunk == ChunkSegments

InitSpecChunk == InitChunk /\ IdleRetry /\ IdleFetch /\ IdleGen /\ IdleSpeech /\ IdleDelay /\ IdleAnalyze /\ IdlePost /\ IdleRun

SpecChunk == InitSpecChunk /\ [][NextChunk]_vars

NextCloud ==
  \/ NoSegments
  \/ StartChunkLoop
  \/ FirstAttemptRaises
  \/ FirstAttemptReturns
  \/ RetryReturns
  \/ RetryRaises
  \/ FinishAudio

InitSpecCloud == InitCloud /\ IdleRetry /\ IdleFetch /\ IdleGen /\ IdleSpeech /\ IdleDelay /\ IdleAnalyze /\ IdlePost /\ IdleRun

SpecCloud == InitSpecCloud /\ [][NextCloud]_vars

NextParse == ParseTranscript

InitSpecParse == InitParse /\ IdleRetry /\ IdleFetch /\ IdleGen /\ IdleCloud /\ IdleDelay /\ IdleAnalyze /\ IdlePost /\ IdleRun

SpecParse == InitSpecParse /\ [][NextParse]_vars

NextPause == GetPauseDuration

InitSpecPause == InitPause /\ IdleRetry /\ IdleFetch /\ IdleGen /\ IdleCloud /\ IdleDelay /\ IdleAnalyze /\ IdlePost /\ IdleRun

SpecPause == InitSpecPause /\ [][NextPause]_vars

NextSpeech ==
  \/ VoiceUnavailable
  \/ NoUtterances
  \/ SynthesizeUtterance
  \/ UtteranceFails
  \/ StartCombined
  \/ AppendWithPause
  \/ ExportCombined

InitSpecSpeech == InitSpeech /\ IdleRetry /\ IdleFetch /\ IdleGen /\ IdleCloud /\ IdleDelay /\ IdleAnalyze /\ IdlePost /\ IdleRun

SpecSpeech == InitSpecSpeech /\ [][NextSpeech]_vars

NextSelect ==
  \/ SelectPosts
  \/ NoPostsFound

InitSpecSelect == InitSelect /\ IdleRetry /\ IdleFetch /\ IdleCloud /\ IdleSpeech /\ IdleDelay /\ IdleAnalyze /\ IdlePost /\ IdleRun

SpecSelect == InitSpecSelect /\ [][NextSelect]_vars

NextDelay ==
  \/ AdaptiveDelayReturns
  \/ AdaptiveDelayRaises

InitSpecDelay ==
  InitDelay /\ IdleRetry /\ IdleFetch /\ IdleGen /\ IdleCloud /\ IdleSpeech /\ IdleAnalyze
    /\ IdlePost /\ IdleRun

SpecDelay == InitSpecDelay /\ [][NextDelay]_vars

NextAnalyze ==
  \/ FilterNothing
  \/ AnalyzeRaises

InitSpecAnalyze ==
  InitAnalyze /\ IdleRetry /\ IdleFetch /\ IdleGen /\ IdleCloud /\ IdleSpeech /\ IdleDelay
    /\ IdlePost /\ IdleRun

SpecAnalyze == InitSpecAnalyze /\ [][NextAnalyze]_vars

NextPosts ==
  \/ SaveBatch
  \/ RecordEpisode

InitSpecPosts ==
  InitPost /\ IdleRetry /\ IdleFetch /\ IdleGen /\ IdleCloud /\ IdleSpeech /\ IdleDelay
    /\ IdleAnalyze /\ IdleRun

SpecPosts == InitSpecPosts /\ [][NextPosts]_vars

NextRuns ==
  \/ TimePasses
  \/ \E r \in GenRuns : SnapshotTranscripts(r)
  \/ \E r \in GenRuns : GeneratePodcast(r)
  \/ \E r \in GenRuns : FindTranscript(r)
  \/ \E r \in GenRuns : SynthesizeFromTranscript(r)
  \/ \E r \in GenRuns : RecordRun(r)

InitSpecRuns ==
  InitRun /\ IdleRetry /\ IdleFetch /\ IdleGen /\ IdleCloud /\ IdleSpeech /\ IdleDelay
    /\ IdleAnalyze /\ IdlePost

SpecRuns == InitSpecRuns /\ [][NextRuns]_vars

====
